---- MODULE Spec2Model ----
(***************************************************************************)
(* TikTok Shop pricing calculator: the fee-schedule lookups of             *)
(* client/src/lib/countryConfig.ts and the price solver calculatePricing   *)
(* of the Home page.                                                       *)
(*                                                                         *)
(* JavaScript numbers are modelled in decimal fixed point: a sign and a    *)
(* magnitude in units of 10^-20, the magnitude a little-endian sequence of *)
(* base-10000 limbs of any length (so that no value is limited by the      *)
(* checker's machine integers), every product and quotient rounded to the  *)
(* nearest unit; extended with Infinity, -Infinity, NaN and undefined.     *)
(* The binary rounding of IEEE-754 and the sign of zero are abstracted     *)
(* away.                                                                   *)
(***************************************************************************)
EXTENDS Integers, Sequences, FiniteSets, TLC

----------------------------------------------------------------------------
(* Natural numbers of any size: little-endian limbs, no leading zero limb, *)
(* <<>> is 0.  The operators avoid deep recursion.                         *)

Base == 10000

SetMax(S) == CHOOSE x \in S : \A y \in S : y <= x

\* the limb of weight Base^(i-1), 0 beyond the last
Limb(a, i) == IF i >= 1 /\ i <= Len(a) THEN a[i] ELSE 0

\* a without leading zero limbs
NatNorm(a) ==
    IF a = <<>> \/ a[Len(a)] # 0 THEN a
    ELSE LET nz == {i \in 1..Len(a) : a[i] # 0}
         IN  IF nz = {} THEN <<>> ELSE SubSeq(a, 1, SetMax(nz))

\* -1, 0 or 1 as a < b, a = b or a > b
NatCmp(a, b) ==
    IF Len(a) < Len(b) THEN -1
    ELSE IF Len(a) > Len(b) THEN 1
    ELSE LET df == {i \in 1..Len(a) : a[i] # b[i]}
         IN  IF df = {} THEN 0
             ELSE IF a[SetMax(df)] < b[SetMax(df)] THEN -1 ELSE 1

\* a + b: limb sums, and the carry into each limb by carry look-ahead
NatAdd(a, b) ==
    LET n == IF Len(a) < Len(b) THEN Len(b) ELSE Len(a)
        s(i) == Limb(a, i) + Limb(b, i)
        carry(i) == IF \E j \in 1..(i - 1) :
                          /\ s(j) >= Base
                          /\ \A k \in (j + 1)..(i - 1) : s(k) = Base - 1
                    THEN 1 ELSE 0
    IN  NatNorm(SubSeq([i \in 1..(n + 1) |-> (s(i) + carry(i)) % Base], 1, n + 1))

\* a - b for a >= b, the borrows by look-ahead
NatSub(a, b) ==
    LET d(i) == Limb(a, i) - Limb(b, i)
        borrow(i) == IF \E j \in 1..(i - 1) :
                           /\ d(j) < 0
                           /\ \A k \in (j + 1)..(i - 1) : d(k) = 0
                     THEN 1 ELSE 0
    IN  NatNorm(SubSeq([i \in 1..Len(a) |-> (d(i) - borrow(i) + Base) % Base],
                       1, Len(a)))

\* a * Base^k
NatShift(a, k) == IF a = <<>> THEN a ELSE SubSeq([i \in 1..k |-> 0], 1, k) \o a

\* a \div Base^k
NatDrop(a, k) == IF Len(a) <= k THEN <<>> ELSE SubSeq(a, k + 1, Len(a))

\* a * m for one limb m
NatMulSmall(a, m) ==
    IF m = 0 \/ a = <<>> THEN <<>>
    ELSE NatAdd(SubSeq([i \in 1..Len(a) |-> (a[i] * m) % Base], 1, Len(a)),
                <<0>> \o SubSeq([i \in 1..Len(a) |-> (a[i] * m) \div Base], 1, Len(a)))

(* the sum over i in lo..hi of the low (part = 0) or high (part = 1) half  *)
(* of the limb products a[i] * b[k + 1 - i]                                *)
RECURSIVE ColumnSum(_, _, _, _, _, _)
ColumnSum(a, b, k, lo, hi, part) ==
    IF lo > hi THEN 0
    ELSE IF lo = hi
    THEN (IF part = 0 THEN (a[lo] * b[k + 1 - lo]) % Base
          ELSE (a[lo] * b[k + 1 - lo]) \div Base)
    ELSE ColumnSum(a, b, k, lo, (lo + hi) \div 2, part)
         + ColumnSum(a, b, k, (lo + hi) \div 2 + 1, hi, part)

\* a * b by columns
NatMul(a, b) ==
    IF a = <<>> \/ b = <<>> THEN <<>>
    ELSE LET n == Len(a)
             m == Len(b)
             first(k) == IF k + 1 - m < 1 THEN 1 ELSE k + 1 - m
             last(k)  == IF k > n THEN n ELSE k
             col(k) == (IF k <= n + m - 1
                        THEN ColumnSum(a, b, k, first(k), last(k), 0) ELSE 0)
                       + (IF k >= 2
                          THEN ColumnSum(a, b, k - 1, first(k - 1), last(k - 1), 1)
                          ELSE 0)
             cols == SubSeq([k \in 1..(n + m) |-> col(k)], 1, n + m)
         IN  NatAdd(SubSeq([k \in 1..(n + m) |-> cols[k] % Base], 1, n + m),
                    <<0>> \o SubSeq([k \in 1..(n + m) |-> cols[k] \div Base], 1, n + m))

NatToInt(a) ==
    IF a = <<>> THEN 0 ELSE IF Len(a) = 1 THEN a[1] ELSE a[2] * Base + a[1]

RECURSIVE IntToNat(_)
IntToNat(i) == IF i = 0 THEN <<>> ELSE <<i % Base>> \o IntToNat(i \div Base)

IntMin(i, j) == IF i < j THEN i ELSE j
IntMax(i, j) == IF i < j THEN j ELSE i

\* the largest k in lo..hi with k * b <= r, given that lo * b <= r
RECURSIVE NatDigit(_, _, _, _)
NatDigit(r, b, lo, hi) ==
    IF lo >= hi THEN lo
    ELSE IF NatCmp(NatMulSmall(b, (lo + hi + 1) \div 2), r) <= 0
         THEN NatDigit(r, b, (lo + hi + 1) \div 2, hi)
         ELSE NatDigit(r, b, lo, (lo + hi + 1) \div 2 - 1)

\* the power of ten that brings the leading limb t to five decimal digits
DigitScale(t) ==
    IF t >= 1000 THEN 10 ELSE IF t >= 100 THEN 100 ELSE IF t >= 10 THEN 1000 ELSE 10000

\* the decimal digits of x that lead from limb lb + 1 down to scale sc
TopDigits(x, lb, sc) ==
    (Limb(x, lb + 1) * Base + Limb(x, lb)) * sc + Limb(x, lb - 1) \div (Base \div sc)

\* the quotient limb searched between the bounds that rt and bt give
NatQuotBracket(r, b, rt, bt) ==
    NatDigit(r, b, IntMax(1, rt \div (bt + 1)), IntMin(Base - 1, (rt + 1) \div bt))

(* the quotient limb of r / b, for r < b * Base: bracketed from the five   *)
(* leading decimal digits of b, then searched                              *)
NatQuotDigit(r, b) ==
    IF NatCmp(r, b) < 0 THEN 0
    ELSE IF Len(b) = 1 THEN NatToInt(r) \div b[1]
    ELSE NatQuotBracket(r, b, TopDigits(r, Len(b), DigitScale(b[Len(b)])),
                        TopDigits(b, Len(b), DigitScale(b[Len(b)])))

\* one step of long division: <<the quotient limb d, r1 - d * b>>
NatDivStep(b, r1, d) ==
    <<<<d>>, IF d = 0 THEN r1 ELSE NatSub(r1, NatMulSmall(b, d))>>

NatDivDigit(b, r1) == NatDivStep(b, r1, NatQuotDigit(r1, b))

NatDivJoin(up, down) == <<down[1] \o up[1], down[2]>>

(* long division of the limbs a[hi], ..., a[lo] with the remainder r so    *)
(* far: <<quotient limbs, remainder>>; the upper half first, then the      *)
(* lower half from the remainder the upper half left                       *)
RECURSIVE NatDivRange(_, _, _, _, _)
RECURSIVE NatDivLower(_, _, _, _, _)
NatDivRange(a, b, hi, lo, r) ==
    IF hi = lo THEN NatDivDigit(b, NatNorm(<<a[lo]>> \o r))
    ELSE NatDivLower(a, b, (hi + lo) \div 2, lo,
                     NatDivRange(a, b, hi, (hi + lo) \div 2 + 1, r))

NatDivLower(a, b, mid, lo, up) ==
    IF up[2] = <<>>
    THEN NatDivJoin(up, NatDivRange(a, b, mid, lo, <<>>))
    ELSE NatDivJoin(up, NatDivRange(a, b, mid, lo, up[2]))

NatDivTop(qr) == <<NatNorm(qr[1]), qr[2]>>

\* <<a \div b, a % b>> for b > 0
NatDivMod(a, b) ==
    IF NatCmp(a, b) < 0 THEN <<<<>>, a>>
    ELSE NatDivTop(NatDivRange(a, b, Len(a) - Len(b) + 1, 1,
                               SubSeq(a, Len(a) - Len(b) + 2, Len(a))))

\* a / b rounded to the nearest natural number, for b > 0
NatRoundDiv(a, b) == NatDivMod(NatAdd(NatMulSmall(a, 2), b), NatMulSmall(b, 2))[1]

\* a / Base^k rounded to the nearest natural number, for k > 0
NatRoundDrop(a, k) ==
    NatDrop(NatAdd(a, SubSeq([i \in 1..k |-> IF i = k THEN Base \div 2 ELSE 0], 1, k)), k)

----------------------------------------------------------------------------
(* JavaScript number values.  k is "fin" (the number s * n / Base^FracLimbs, *)
(* n a natural number), "inf" (s * Infinity), "nan" or "undef" (the value  *)
(* undefined).                                                             *)

\* limbs after the point: 20 decimal places
FracLimbs == 5

Fin(s, n) == [k |-> "fin", s |-> s, n |-> n]
Zero      == Fin(0, <<>>)
Infinity  == [k |-> "inf", s |-> 1, n |-> <<>>]
NaN       == [k |-> "nan", s |-> 0, n |-> <<>>]
undefined == [k |-> "undef", s |-> 0, n |-> <<>>]

SignedInf(s) == [Infinity EXCEPT !.s = s]

\* s * n units, 0 when no unit is left
FinOf(s, n) == IF n = <<>> THEN Zero ELSE Fin(s, n)

IntAbs(i) == IF i < 0 THEN -i ELSE i
IntSign(i) == IF i < 0 THEN -1 ELSE IF i = 0 THEN 0 ELSE 1

\* the literal n / d, for integers n and d > 0
Dec(n, d) ==
    FinOf(IntSign(n),
          NatRoundDiv(NatShift(IntToNat(IntAbs(n)), FracLimbs), IntToNat(d)))

One == Dec(1, 1)

IsFinite(x) == x.k = "fin"
IsNaN(x) == x.k \in {"nan", "undef"}

\* unary minus
Neg(x) == IF x.k \in {"fin", "inf"} THEN [x EXCEPT !.s = -x.s] ELSE NaN

\* -1, 0 or 1 as x < y, x = y or x > y, for finite x and y
FinCmp(x, y) ==
    IF x.s # y.s THEN (IF x.s < y.s THEN -1 ELSE 1)
    ELSE x.s * NatCmp(x.n, y.n)

\* x + y for x and y of opposite signs, where c compares their magnitudes
FinDiff(x, y, c) ==
    IF c = 0 THEN Zero
    ELSE IF c > 0 THEN Fin(x.s, NatSub(x.n, y.n))
    ELSE Fin(y.s, NatSub(y.n, x.n))

FinAdd(x, y) ==
    IF x.s = 0 THEN y
    ELSE IF y.s = 0 THEN x
    ELSE IF x.s = y.s THEN Fin(x.s, NatAdd(x.n, y.n))
    ELSE FinDiff(x, y, NatCmp(x.n, y.n))

FinMul(x, y) == FinOf(x.s * y.s, NatRoundDrop(NatMul(x.n, y.n), FracLimbs))

\* x / y for y # 0
FinDiv(x, y) == FinOf(x.s * y.s, NatRoundDiv(NatShift(x.n, FracLimbs), y.n))

\* x + y when x or y is not finite
AddSpecial(x, y) ==
    IF IsNaN(x) \/ IsNaN(y) THEN NaN
    ELSE IF x.k = "inf" /\ y.k = "inf" THEN (IF x.s = y.s THEN x ELSE NaN)
    ELSE IF x.k = "inf" THEN x
    ELSE y

\* x + y
Add(x, y) ==
    IF x.k = "fin" /\ y.k = "fin" THEN FinAdd(x, y) ELSE AddSpecial(x, y)

\* x - y
Sub(x, y) ==
    IF x.k = "fin" /\ y.k = "fin" THEN FinAdd(x, [y EXCEPT !.s = -y.s])
    ELSE AddSpecial(x, Neg(y))

\* x * y when x or y is not finite
MulSpecial(x, y) ==
    IF IsNaN(x) \/ IsNaN(y) THEN NaN
    ELSE IF x.s = 0 \/ y.s = 0 THEN NaN
    ELSE SignedInf(x.s * y.s)

\* x * y
Mul(x, y) ==
    IF x.k = "fin" /\ y.k = "fin" THEN FinMul(x, y) ELSE MulSpecial(x, y)

\* x / y when x or y is not finite or y is zero (a zero divisor is +0)
DivSpecial(x, y) ==
    IF IsNaN(x) \/ IsNaN(y) THEN NaN
    ELSE IF x.k = "inf"
         THEN (IF y.k = "inf" THEN NaN
               ELSE SignedInf(IF y.s < 0 THEN -x.s ELSE x.s))
    ELSE IF y.k = "inf" THEN Zero
    ELSE IF x.s = 0 THEN NaN ELSE SignedInf(x.s)

\* x / y
Div(x, y) ==
    IF x.k = "fin" /\ y.k = "fin" /\ y.s # 0
    THEN FinDiv(x, y)
    ELSE DivSpecial(x, y)

\* x < y (false when either is NaN)
Lt(x, y) ==
    IF IsNaN(x) \/ IsNaN(y) THEN FALSE
    ELSE IF x.k = "inf" THEN (x.s < 0 /\ ~(y.k = "inf" /\ y.s < 0))
    ELSE IF y.k = "inf" THEN y.s > 0
    ELSE FinCmp(x, y) < 0

\* x > y
Gt(x, y) == Lt(y, x)

\* x <= y
Le(x, y) == ~IsNaN(x) /\ ~IsNaN(y) /\ ~Lt(y, x)

\* Math.abs
Abs(x) == IF x.k \in {"fin", "inf"} /\ x.s < 0 THEN Neg(x)
          ELSE IF IsNaN(x) THEN NaN ELSE x

\* Math.min
Min(x, y) == IF IsNaN(x) \/ IsNaN(y) THEN NaN ELSE IF Lt(y, x) THEN y ELSE x

\* ToBoolean of a number or undefined
Truthy(x) == x.k = "inf" \/ (x.k = "fin" /\ x.s # 0)

\* x || y
OrElse(x, y) == IF Truthy(x) THEN x ELSE y

----------------------------------------------------------------------------
(* The fee-schedule table (countryConfig.ts).  Optional fields that a      *)
(* country does not define hold undefined; an absent range is <<>>; an     *)
(* absent bxp, commerceGrowthRate or orderProcessingFeeWaiver object has   *)
(* present = FALSE.                                                        *)

NoRange == <<>>
NoBxp == [present |-> FALSE, electronics |-> undefined, other |-> undefined,
          range |-> NoRange]
NoCommerceGrowthRate ==
    [present |-> FALSE, electronics |-> undefined, other |-> undefined,
     cap |-> undefined]
NoWaiver ==
    [present |-> FALSE, newSeller |-> FALSE, newSellerDays |-> 0,
     existingSeller |-> FALSE, existingSellerFreeOrders |-> 0]

\* the five countries of the shipped table
SHIPPED_CODES == {"TH", "VN", "PH", "MY", "SG"}

SHIPPED_COUNTRIES ==
    [c \in SHIPPED_CODES |->
       CASE c = "TH" ->
              [code |-> "TH",
               exchangeRateToCNY |-> Dec(20, 100),
               commissionRate |-> [electronics |-> Dec(535, 10000),
                                   other |-> Dec(642, 10000),
                                   range |-> NoRange, bxp |-> NoBxp],
               transactionFeeRate |-> Dec(321, 10000),
               commerceGrowthRate |-> [present |-> TRUE,
                                       electronics |-> Dec(535, 10000),
                                       other |-> Dec(642, 10000),
                                       cap |-> Dec(199, 1)],
               infrastructureFee |-> Dec(107, 100),
               orderProcessingFee |-> undefined,
               orderProcessingFeeWaiver |-> NoWaiver,
               vatRate |-> Dec(7, 100)]
         [] c = "VN" ->
              [code |-> "VN",
               exchangeRateToCNY |-> Dec(29, 100000),
               commissionRate |-> [electronics |-> undefined,
                                   other |-> Dec(5, 100),
                                   range |-> NoRange, bxp |-> NoBxp],
               transactionFeeRate |-> Dec(321, 10000),
               commerceGrowthRate |-> NoCommerceGrowthRate,
               infrastructureFee |-> undefined,
               orderProcessingFee |-> undefined,
               orderProcessingFeeWaiver |-> NoWaiver,
               vatRate |-> Dec(10, 100)]
         [] c = "PH" ->
              [code |-> "PH",
               exchangeRateToCNY |-> Dec(13, 100),
               commissionRate |-> [electronics |-> undefined,
                                   other |-> undefined,
                                   range |-> <<Dec(5, 100), Dec(91, 1000)>>,
                                   bxp |-> NoBxp],
               transactionFeeRate |-> Dec(224, 10000),
               commerceGrowthRate |-> NoCommerceGrowthRate,
               infrastructureFee |-> undefined,
               orderProcessingFee |-> Dec(3, 1),
               orderProcessingFeeWaiver |->
                   [present |-> TRUE, newSeller |-> TRUE, newSellerDays |-> 90,
                    existingSeller |-> TRUE, existingSellerFreeOrders |-> 50],
               vatRate |-> Dec(12, 100)]
         [] c = "MY" ->
              [code |-> "MY",
               exchangeRateToCNY |-> Dec(160, 100),
               commissionRate |-> [electronics |-> undefined,
                                   other |-> undefined,
                                   range |-> <<Dec(54, 1000), Dec(1026, 10000)>>,
                                   bxp |-> [present |-> TRUE,
                                            electronics |-> undefined,
                                            other |-> undefined,
                                            range |-> <<Dec(918, 10000),
                                                        Dec(1458, 10000)>>]],
               transactionFeeRate |-> Dec(378, 10000),
               commerceGrowthRate |-> NoCommerceGrowthRate,
               infrastructureFee |-> undefined,
               orderProcessingFee |-> undefined,
               orderProcessingFeeWaiver |-> NoWaiver,
               vatRate |-> Dec(8, 100)]
         [] c = "SG" ->
              [code |-> "SG",
               exchangeRateToCNY |-> Dec(530, 100),
               commissionRate |-> [electronics |-> undefined,
                                   other |-> Dec(327, 10000),
                                   range |-> NoRange, bxp |-> NoBxp],
               transactionFeeRate |-> Dec(218, 10000),
               commerceGrowthRate |-> NoCommerceGrowthRate,
               infrastructureFee |-> undefined,
               orderProcessingFee |-> undefined,
               orderProcessingFeeWaiver |-> NoWaiver,
               vatRate |-> Dec(9, 100)]]

(* Further CountryConfig values, as the interface admits them, that the    *)
(* lookups and the solver are run on besides the shipped ones:             *)
(*   ZD  combined rate exactly 1 (0.5 + 0.5)                               *)
(*   ND  combined rate above 1 (0.6 + 0.5)                                 *)
(*   ZC  a growth-service cap of 0                                         *)
(*   ZG  a growth-service rate of 0 with a cap of 100                      *)
(*   ST  a growth-service rate (0.5) above the linear denominator (0.4)    *)
(*   WV  an order-processing fee whose waiver covers no seller             *)
(*   TR  flat commission rates beside a range, and a bxp tier with a range *)
(*   TF  a commission rate of 0 for electronics, and a bxp tier with flat  *)
(*       rates                                                             *)
HYPOTHETICAL_CODES == {"ZD", "ND", "ZC", "ZG", "ST", "WV", "TR", "TF"}

HYPOTHETICAL_COUNTRIES ==
    [c \in HYPOTHETICAL_CODES |->
       [code |-> c,
        exchangeRateToCNY |-> One,
        commissionRate |->
            [electronics |-> CASE c = "TR" -> Dec(8, 100)
                               [] c = "TF" -> Zero
                               [] OTHER -> undefined,
             other |-> CASE c = "ZD" -> Dec(5, 10)
                         [] c = "ND" -> Dec(6, 10)
                         [] OTHER -> Dec(1, 10),
             range |-> IF c = "TR" THEN <<Dec(4, 100), Dec(6, 100)>> ELSE NoRange,
             bxp |-> CASE c = "TR" -> [present |-> TRUE,
                                       electronics |-> undefined,
                                       other |-> undefined,
                                       range |-> <<Dec(1, 10), Dec(2, 10)>>]
                       [] c = "TF" -> [present |-> TRUE,
                                       electronics |-> Dec(2, 10),
                                       other |-> Dec(3, 10),
                                       range |-> NoRange]
                       [] OTHER -> NoBxp],
        transactionFeeRate |-> IF c \in {"ZC", "ZG", "WV"} THEN Dec(5, 100) ELSE Zero,
        commerceGrowthRate |->
            CASE c = "ZD" -> [present |-> TRUE, electronics |-> undefined,
                              other |-> Dec(5, 10), cap |-> undefined]
              [] c = "ND" -> [present |-> TRUE, electronics |-> undefined,
                              other |-> Dec(5, 10), cap |-> undefined]
              [] c = "ZC" -> [present |-> TRUE, electronics |-> undefined,
                              other |-> Dec(1, 10), cap |-> Zero]
              [] c = "ZG" -> [present |-> TRUE, electronics |-> undefined,
                              other |-> Zero, cap |-> Dec(100, 1)]
              [] c = "ST" -> [present |-> TRUE, electronics |-> undefined,
                               other |-> Dec(5, 10), cap |-> Dec(10, 1)]
              [] OTHER -> NoCommerceGrowthRate,
        infrastructureFee |-> undefined,
        orderProcessingFee |-> IF c = "WV" THEN Dec(2, 1) ELSE undefined,
        orderProcessingFeeWaiver |->
            IF c = "WV"
            THEN [present |-> TRUE, newSeller |-> FALSE, newSellerDays |-> 0,
                  existingSeller |-> FALSE, existingSellerFreeOrders |-> 50]
            ELSE NoWaiver,
        vatRate |-> IF c \in {"ZC", "ZG", "WV"} THEN Dec(25, 100) ELSE Zero]]

\* the table as the module defines it
COUNTRIES == SHIPPED_COUNTRIES @@ HYPOTHETICAL_COUNTRIES

(* The object COUNTRIES is shared by every call and is open to assignment  *)
(* (const binds the name only): countries holds it as the calls find it.   *)
VARIABLE countries

\* the table with every absent infrastructureFee written back as 0
CountriesAfterDefaulting(t) ==
    [c \in DOMAIN t |-> [t[c] EXCEPT !.infrastructureFee = OrElse(@, Zero)]]

(* the table t after a call of any of the four functions: none of them     *)
(* assigns to COUNTRIES, to a config or to a field of one                  *)
CountriesAfterCall(t) == t

\* COUNTRIES[countryCode] is not undefined
HasConfig(countryCode) == countryCode \in DOMAIN countries

Midpoint(range) == Div(Add(range[1], range[2]), Dec(2, 1))

\* getCommissionRate with the flat rates read before the range
CommissionRateOfFlatFirst(rate, category, malaysiaWithoutBXP) ==
    IF malaysiaWithoutBXP /\ rate.bxp.present /\ rate.bxp.range # NoRange
    THEN Midpoint(rate.bxp.range)
    ELSE IF Truthy(OrElse(rate[category], rate.other))
    THEN OrElse(rate[category], rate.other)
    ELSE IF rate.range # NoRange
    THEN Midpoint(rate.range)
    ELSE Zero

\* getCommissionRate once config is found; rate is config.commissionRate
CommissionRateOf(rate, category, malaysiaWithoutBXP) ==
    IF malaysiaWithoutBXP /\ rate.bxp.present /\ rate.bxp.range # NoRange
    THEN Midpoint(rate.bxp.range)
    ELSE IF rate.range # NoRange
    THEN Midpoint(rate.range)
    ELSE OrElse(OrElse(rate[category], rate.other), Zero)

\* the seller tier applied in every country that defines one
getCommissionRateAnyCountry(countryCode, category, isBXP) ==
    IF ~HasConfig(countryCode) THEN Zero
    ELSE CommissionRateOf(countries[countryCode].commissionRate, category, ~isBXP)

getCommissionRate(countryCode, category, isBXP) ==
    IF ~HasConfig(countryCode) THEN Zero
    ELSE CommissionRateOf(countries[countryCode].commissionRate, category,
                          countryCode = "MY" /\ ~isBXP)

\* getCommerceGrowthRate once config is found; growth is config.commerceGrowthRate
CommerceGrowthRateOf(growth, category) ==
    IF ~growth.present THEN [rate |-> Zero, cap |-> undefined]
    ELSE [rate |-> OrElse(OrElse(growth[category], growth.other), Zero),
          cap  |-> growth.cap]

getCommerceGrowthRate(countryCode, category) ==
    IF ~HasConfig(countryCode) THEN [rate |-> Zero, cap |-> undefined]
    ELSE CommerceGrowthRateOf(countries[countryCode].commerceGrowthRate, category)

\* getOrderProcessingFee with the free orders counted by < instead of <=
OrderProcessingFeeBelow(config, isNewSeller, monthlyOrderCount) ==
    IF ~Truthy(config.orderProcessingFee) THEN Zero
    ELSE IF /\ config.orderProcessingFeeWaiver.present
            /\ isNewSeller
            /\ config.orderProcessingFeeWaiver.newSeller
    THEN Zero
    ELSE IF /\ config.orderProcessingFeeWaiver.present
            /\ ~isNewSeller
            /\ config.orderProcessingFeeWaiver.existingSeller
            /\ monthlyOrderCount < config.orderProcessingFeeWaiver.existingSellerFreeOrders
    THEN Zero
    ELSE config.orderProcessingFee

\* getOrderProcessingFee without the new-seller exemption
OrderProcessingFeeNoGrace(config, isNewSeller, monthlyOrderCount) ==
    IF ~Truthy(config.orderProcessingFee) THEN Zero
    ELSE IF /\ config.orderProcessingFeeWaiver.present
            /\ ~isNewSeller
            /\ config.orderProcessingFeeWaiver.existingSeller
            /\ monthlyOrderCount <= config.orderProcessingFeeWaiver.existingSellerFreeOrders
    THEN Zero
    ELSE config.orderProcessingFee

\* getOrderProcessingFee once config is found
OrderProcessingFeeOf(config, isNewSeller, monthlyOrderCount) ==
    IF ~Truthy(config.orderProcessingFee) THEN Zero
    ELSE IF /\ config.orderProcessingFeeWaiver.present
            /\ isNewSeller
            /\ config.orderProcessingFeeWaiver.newSeller
    THEN Zero
    ELSE IF /\ config.orderProcessingFeeWaiver.present
            /\ ~isNewSeller
            /\ config.orderProcessingFeeWaiver.existingSeller
            /\ monthlyOrderCount <= config.orderProcessingFeeWaiver.existingSellerFreeOrders
    THEN Zero
    ELSE config.orderProcessingFee

getOrderProcessingFee(countryCode, isNewSeller, monthlyOrderCount) ==
    IF ~HasConfig(countryCode) THEN Zero
    ELSE OrderProcessingFeeOf(countries[countryCode], isNewSeller, monthlyOrderCount)

----------------------------------------------------------------------------
(* calculatePricing (the latest Home page).  Its arguments are the fields  *)
(* of the record a; s holds the constants of lines 77-86 and l those of    *)
(* lines 88-91.                                                            *)

\* the schedule without the infrastructure fee
ScheduleOfNoInfrastructure(a, config, commerceGrowth) ==
    [commissionRate       |-> getCommissionRate(a.countryCode, a.category, a.isBXP),
     transactionFeeRate   |-> config.transactionFeeRate,
     vatRate              |-> config.vatRate,
     infrastructureFee    |-> Zero,
     orderProcessingFee   |-> getOrderProcessingFee(a.countryCode, a.isNewSeller, 0),
     commerceGrowthRate   |-> commerceGrowth.rate,
     commerceGrowthFeeCap |-> OrElse(commerceGrowth.cap, Infinity)]

\* the order-processing fee read from the table without its waiver
ScheduleOfConfiguredFee(a, config, commerceGrowth) ==
    [commissionRate       |-> getCommissionRate(a.countryCode, a.category, a.isBXP),
     transactionFeeRate   |-> config.transactionFeeRate,
     vatRate              |-> config.vatRate,
     infrastructureFee    |-> OrElse(config.infrastructureFee, Zero),
     orderProcessingFee   |-> OrElse(config.orderProcessingFee, Zero),
     commerceGrowthRate   |-> commerceGrowth.rate,
     commerceGrowthFeeCap |-> OrElse(commerceGrowth.cap, Infinity)]

ScheduleOf(a, config, commerceGrowth) ==
    [commissionRate       |-> getCommissionRate(a.countryCode, a.category, a.isBXP),
     transactionFeeRate   |-> config.transactionFeeRate,
     vatRate              |-> config.vatRate,
     infrastructureFee    |-> OrElse(config.infrastructureFee, Zero),
     orderProcessingFee   |-> getOrderProcessingFee(a.countryCode, a.isNewSeller, 0),
     commerceGrowthRate   |-> commerceGrowth.rate,
     commerceGrowthFeeCap |-> OrElse(commerceGrowth.cap, Infinity)]

\* lines 77-86: the fees and rates read from the table
ResolveSchedule(a) ==
    ScheduleOf(a, countries[a.countryCode],
               getCommerceGrowthRate(a.countryCode, a.category))

\* lines 88-91
combinedTaxRate(s, a) == Add(a.dutyRate, Mul(Add(One, a.dutyRate), s.vatRate))
\* costBase without the logistics cost
costBaseOfPurchase(a) == a.purchaseCost
costBase(a) == Add(a.purchaseCost, a.logisticsCost)
taxAmount(s, a) == Mul(a.purchaseCost, combinedTaxRate(s, a))
\* targetRevenue without the profit
targetRevenueAtCost(a) == costBase(a)
\* targetRevenue with a negative targetProfitRate raised to 0
targetRevenueNoLoss(a) ==
    Mul(costBase(a),
        Add(One, IF Lt(a.targetProfitRate, Zero) THEN Zero ELSE a.targetProfitRate))
\* targetRevenue raised to make up for the returns
targetRevenueNetOfReturns(a) ==
    Div(Mul(costBase(a), Add(One, a.targetProfitRate)), Sub(One, a.returnRate))
targetRevenue(a) == Mul(costBase(a), Add(One, a.targetProfitRate))

\* 1 - commissionRate - commerceGrowthRate - transactionFeeRate - vatRate / (1 + vatRate)
LinearDenominator(s) ==
    Sub(Sub(Sub(Sub(One, s.commissionRate), s.commerceGrowthRate),
            s.transactionFeeRate),
        Div(s.vatRate, Add(One, s.vatRate)))

\* the values of lines 88-91 and of the divisor of lines 94 and 106
Locals(s, a) ==
    [combinedTaxRate |-> combinedTaxRate(s, a),
     costBase        |-> costBase(a),
     taxAmount       |-> taxAmount(s, a),
     targetRevenue   |-> targetRevenue(a),
     denominator     |-> LinearDenominator(s)]

\* lines 93-94: the first P
SeedPrice(s, a, l) ==
    Div(Add(Add(Add(Add(l.targetRevenue, s.infrastructureFee),
                    s.orderProcessingFee),
                l.taxAmount),
            Mul(a.sellerDiscount, Add(s.commissionRate, s.commerceGrowthRate))),
        l.denominator)

\* the fees charged at price P (lines 97-101 and 110-115)
\* the commission charged on the base of the transaction fee
commissionFeeAfterSubsidy(s, a, P) ==
    Mul(Sub(Sub(P, a.sellerDiscount), a.platformSubsidy), s.commissionRate)
commissionFee(s, a, P) == Mul(Sub(P, a.sellerDiscount), s.commissionRate)
\* the growth-service fee without its cap
commerceGrowthFeeUncapped(s, a, P) == Mul(Sub(P, a.sellerDiscount), s.commerceGrowthRate)
commerceGrowthFee(s, a, P) ==
    Min(Mul(Sub(P, a.sellerDiscount), s.commerceGrowthRate), s.commerceGrowthFeeCap)
transactionFee(s, a, P) ==
    Mul(Sub(Sub(P, a.sellerDiscount), a.platformSubsidy), s.transactionFeeRate)
vatAmount(s, P) == Mul(Div(P, Add(One, s.vatRate)), s.vatRate)

\* lines 97-101: the fees of one iteration at price P
IterationFees(s, a, P) ==
    [P                 |-> P,
     commissionFee     |-> commissionFee(s, a, P),
     commerceGrowthFee |-> commerceGrowthFee(s, a, P),
     transactionFee    |-> transactionFee(s, a, P),
     vatAmount         |-> vatAmount(s, P)]

\* line 102: the revenue of the iteration it
IterationRevenue(s, l, it) ==
    it @@ [actualRevenue |->
              Sub(Sub(Sub(Sub(Sub(Sub(Sub(it.P, it.commissionFee),
                                      it.commerceGrowthFee),
                                  it.transactionFee),
                              s.infrastructureFee),
                          s.orderProcessingFee),
                      it.vatAmount),
                  l.taxAmount)]

\* lines 97-102: what one iteration computes at price P
Iteration(s, a, l, P) == IterationRevenue(s, l, IterationFees(s, a, P))

\* line 104: Math.abs(actualRevenue - targetRevenue) < 0.01
WithinTolerance(actualRevenue, target) ==
    Lt(Abs(Sub(actualRevenue, target)), Dec(1, 100))

\* the adjustment without the division of line 106
AdjustedPriceUndivided(l, P, actualRevenue) ==
    Add(P, Sub(l.targetRevenue, actualRevenue))

\* the adjustment at half its size
AdjustedPriceDamped(l, P, actualRevenue) ==
    Add(P, Div(Sub(l.targetRevenue, actualRevenue), Mul(Dec(2, 1), l.denominator)))

\* lines 106-107: P after the adjustment
AdjustedPrice(l, P, actualRevenue) ==
    Add(P, Div(Sub(l.targetRevenue, actualRevenue), l.denominator))

MaxIterations == 10

(* lines 96-108: the loop from iteration i at price P.  trace lists what   *)
(* every iteration that ran computed; broke tells whether the loop left    *)
(* through the break.                                                      *)
RECURSIVE PriceLoop(_, _, _, _, _, _)
RECURSIVE LoopBody(_, _, _, _, _, _)
\* the loop adjusting the price once more at the iterate that passes the test
LoopBodyAdjustsOnBreak(s, a, l, i, trace, it) ==
    IF WithinTolerance(it.actualRevenue, l.targetRevenue)
    THEN [P |-> AdjustedPrice(l, it.P, it.actualRevenue),
          trace |-> Append(trace, it), broke |-> TRUE]
    ELSE PriceLoop(s, a, l, AdjustedPrice(l, it.P, it.actualRevenue), i + 1,
                   Append(trace, it))

PriceLoop(s, a, l, P, i, trace) ==
    IF i >= MaxIterations THEN [P |-> P, trace |-> trace, broke |-> FALSE]
    ELSE LoopBody(s, a, l, i, trace, Iteration(s, a, l, P))

\* lines 103-107: iteration i once it has computed actualRevenue
LoopBody(s, a, l, i, trace, it) ==
    IF WithinTolerance(it.actualRevenue, l.targetRevenue)
    THEN [P |-> it.P, trace |-> Append(trace, it), broke |-> TRUE]
    ELSE PriceLoop(s, a, l, AdjustedPrice(l, it.P, it.actualRevenue), i + 1,
                   Append(trace, it))

\* lines 110-118: the prices, fees and taxes at the final P
FinalFees(s, a, P) ==
    [discountedPrice   |-> Sub(P, a.sellerDiscount),
     preTaxPrice       |-> Div(P, Add(One, s.vatRate)),
     commissionFee     |-> commissionFee(s, a, P),
     commerceGrowthFee |-> commerceGrowthFee(s, a, P),
     transactionFee    |-> transactionFee(s, a, P),
     vatAmount         |-> vatAmount(s, P),
     importDuty        |-> Mul(a.purchaseCost, a.dutyRate),
     importVAT         |-> Mul(Mul(a.purchaseCost, Add(One, a.dutyRate)), s.vatRate)]

\* totalTax without the import VAT
FinalTotalsDutyOnly(s, l, f) ==
    f @@ [totalPlatformFees |->
              Add(Add(Add(Add(f.commissionFee, f.commerceGrowthFee), f.transactionFee),
                      s.infrastructureFee),
                  s.orderProcessingFee),
          totalTax |-> Add(f.importDuty, f.vatAmount)]

\* lines 116 and 119
FinalTotals(s, l, f) ==
    f @@ [totalPlatformFees |->
              Add(Add(Add(Add(f.commissionFee, f.commerceGrowthFee), f.transactionFee),
                      s.infrastructureFee),
                  s.orderProcessingFee),
          totalTax |-> Add(l.taxAmount, f.vatAmount)]

\* actualRevenue without the taxes
FinalRevenueBeforeTax(P, f) ==
    f @@ [actualRevenue |-> Sub(P, f.totalPlatformFees)]

\* line 120
FinalRevenue(P, f) ==
    f @@ [actualRevenue |-> Sub(Sub(P, f.totalPlatformFees), f.totalTax)]

\* the return cost taken on the pre-tax price instead of the revenue
FinalProfitReturnOnPrice(a, l, f) ==
    f @@ [actualProfit |-> Sub(f.actualRevenue, l.costBase),
          returnCost   |-> Mul(f.preTaxPrice, a.returnRate)]

\* line 121, and actualRevenue * returnRate of lines 158-160
FinalProfit(a, l, f) ==
    f @@ [actualProfit |-> Sub(f.actualRevenue, l.costBase),
          returnCost   |-> Mul(f.actualRevenue, a.returnRate)]

\* actualProfit - actualRevenue * returnRate of lines 159-160
FinalAdjustedProfit(f) ==
    f @@ [adjustedProfit |-> Sub(f.actualProfit, f.returnCost)]

\* the rates without the test costBase > 0
FinalRatesUnguarded(l, f) ==
    f @@ [profitRate |-> Div(f.actualProfit, l.costBase),
          adjustedProfitRate |-> Div(f.adjustedProfit, l.costBase)]

\* lines 122 and 160
FinalRates(l, f) ==
    f @@ [profitRate |-> IF Gt(l.costBase, Zero)
                         THEN Div(f.actualProfit, l.costBase) ELSE Zero,
          adjustedProfitRate |-> IF Gt(l.costBase, Zero)
                                 THEN Div(f.adjustedProfit, l.costBase) ELSE Zero]

\* lines 124-162: the object returned
PricingResult(s, a, l, P, f) ==
    [retailPrice     |-> P,
     preTaxPrice     |-> f.preTaxPrice,
     discountedPrice |-> f.discountedPrice,
     costs |-> [purchaseCost  |-> a.purchaseCost,
                logisticsCost |-> a.logisticsCost,
                totalCost     |-> l.costBase],
     taxes |-> [importDuty |-> f.importDuty,
                importVAT  |-> f.importVAT,
                salesVAT   |-> f.vatAmount,
                totalTax   |-> f.totalTax],
     platformFees |-> [commission      |-> f.commissionFee,
                       commerceGrowth  |-> f.commerceGrowthFee,
                       transaction     |-> f.transactionFee,
                       infrastructure  |-> s.infrastructureFee,
                       orderProcessing |-> s.orderProcessingFee,
                       totalFees       |-> f.totalPlatformFees],
     subsidyDiscount |-> [sellerDiscount  |-> a.sellerDiscount,
                          platformSubsidy |-> a.platformSubsidy],
     revenue |-> [actualRevenue |-> f.actualRevenue,
                  actualProfit  |-> f.actualProfit,
                  profitRate    |-> f.profitRate],
     returnLoss |-> [returnRate         |-> a.returnRate,
                     returnCost         |-> f.returnCost,
                     adjustedProfit     |-> f.adjustedProfit,
                     adjustedProfitRate |-> f.adjustedProfitRate]]

\* lines 110-162: the result assembled at the final P
AssembleResult(s, a, l, P) ==
    PricingResult(s, a, l, P,
        FinalRates(l, FinalAdjustedProfit(FinalProfit(a, l,
            FinalRevenue(P, FinalTotals(s, l, FinalFees(s, a, P)))))))

\* line 79 reads a property of undefined: calculatePricing throws a TypeError
ThrowsTypeError(a) == ~HasConfig(a.countryCode)

(* what the call returns, with the schedule it resolved, the locals of    *)
(* lines 88-91 and the trace of its loop                                   *)
Returned(s, a, l, loop) ==
    [schedule |-> s, locals |-> l, loop |-> loop, threw |-> FALSE,
     value |-> AssembleResult(s, a, l, loop.P)]

Solve(s, a, l) == Returned(s, a, l, PriceLoop(s, a, l, SeedPrice(s, a, l), 0, <<>>))

SolveWith(s, a) == Solve(s, a, Locals(s, a))

\* the outcome of the call calculatePricing(a)
Invoke(a) ==
    IF ThrowsTypeError(a) THEN [threw |-> TRUE, error |-> "TypeError"]
    ELSE SolveWith(ResolveSchedule(a), a)

\* the PricingResult returned, for a call that does not throw
calculatePricing(a) == Invoke(a).value

(* calculatePricing of client/src/pages/Home.tsx, the earlier solver for   *)
(* every country.  It has no parameters isBXP, isNewSeller and returnRate: *)
(* getCommissionRate is called with two arguments (isBXP defaults to       *)
(* true), the order-processing fee is config.orderProcessingFee || 0, and  *)
(* the result has no returnLoss.  Its lines 77-145 are those of lines      *)
(* 88-155 of the latest solver.                                            *)

\* Home.tsx lines 65-75
HomeTsxScheduleOf(a, config, commerceGrowth) ==
    [commissionRate       |-> getCommissionRate(a.countryCode, a.category, TRUE),
     transactionFeeRate   |-> config.transactionFeeRate,
     vatRate              |-> config.vatRate,
     infrastructureFee    |-> OrElse(config.infrastructureFee, Zero),
     orderProcessingFee   |-> OrElse(config.orderProcessingFee, Zero),
     commerceGrowthRate   |-> commerceGrowth.rate,
     commerceGrowthFeeCap |-> OrElse(commerceGrowth.cap, Infinity)]

HomeTsxResolveSchedule(a) ==
    HomeTsxScheduleOf(a, countries[a.countryCode],
                      getCommerceGrowthRate(a.countryCode, a.category))

\* Home.tsx lines 113-145: the object returned has no returnLoss
HomeTsxResult(v) == [f \in DOMAIN v \ {"returnLoss"} |-> v[f]]

\* the PricingResult of the call calculatePricing(a) of Home.tsx
calculatePricingHomeTsx(a) ==
    HomeTsxResult(SolveWith(HomeTsxResolveSchedule(a), a).value)

(* calculatePricing of lines 974-1058, the first solver, for Thailand only. *)
(* It has no countryCode: its rates and fees are the literals of lines     *)
(* 983-988 and it charges no order-processing fee (0 here).  Where the     *)
(* later solvers divide by 1 + vatRate it divides by the literal 1.07;     *)
(* the result has no orderProcessing and no returnLoss.  Its lines 990-1057 *)
(* are otherwise those of lines 88-155 of the latest solver.               *)

\* lines 983-988
ThailandSchedule(a) ==
    [commissionRate       |-> IF a.category = "electronics"
                              THEN Dec(535, 10000) ELSE Dec(642, 10000),
     transactionFeeRate   |-> Dec(321, 10000),
     vatRate              |-> Dec(7, 100),
     infrastructureFee    |-> Dec(107, 100),
     orderProcessingFee   |-> Zero,
     commerceGrowthRate   |-> IF a.category = "electronics"
                              THEN Dec(535, 10000) ELSE Dec(642, 10000),
     commerceGrowthFeeCap |-> Dec(199, 1)]

\* the literal 1.07 of lines 996, 1003, 1008, 1013 and 1017
ThailandVatDivisor == Dec(107, 100)

\* lines 1026-1057: the object returned
ThailandResult(v) ==
    [f \in DOMAIN v \ {"returnLoss"} |->
        IF f = "platformFees"
        THEN [g \in DOMAIN v.platformFees \ {"orderProcessing"} |-> v.platformFees[g]]
        ELSE v[f]]

\* the PricingResult of the call calculatePricing(a) of the Thailand-only solver
calculatePricingThailand(a) ==
    ThailandResult(SolveWith(ThailandSchedule(a), a).value)

----------------------------------------------------------------------------
(* The Home component (lines 165-199).  inputs holds the state of lines    *)
(* 166-176, result the state of line 177, rendered the values the last     *)
(* render derived from the state, and deps the dependency list of the      *)
(* render whose effect ran last.                                           *)

null == [null |-> TRUE]

\* lines 166-176: the initial state
HomeDefaults ==
    [countryCode |-> "TH", purchaseCostCNY |-> Dec(20, 1),
     logisticsCostCNY |-> Dec(55, 10), category |-> "other",
     dutyRate |-> Dec(30, 100), targetProfitRate |-> Dec(30, 100),
     platformSubsidy |-> Zero, sellerDiscount |-> Zero,
     isBXP |-> TRUE, isNewSeller |-> FALSE, returnRate |-> Dec(5, 100)]

\* lines 179-182: the values derived at every render
currentCountry(inputs) == countries[inputs.countryCode]
purchaseCostLocal(inputs) ==
    Div(inputs.purchaseCostCNY, currentCountry(inputs).exchangeRateToCNY)
logisticsCostLocal(inputs) ==
    Div(inputs.logisticsCostCNY, currentCountry(inputs).exchangeRateToCNY)
Render(inputs) ==
    [purchaseCostLocal |-> purchaseCostLocal(inputs),
     logisticsCostLocal |-> logisticsCostLocal(inputs)]

\* lines 185-197: the arguments the effect of a render passes to calculatePricing
EffectArguments(inputs, rendered) ==
    [countryCode |-> inputs.countryCode,
     purchaseCost |-> rendered.purchaseCostLocal,
     logisticsCost |-> rendered.logisticsCostLocal,
     category |-> inputs.category,
     dutyRate |-> inputs.dutyRate,
     targetProfitRate |-> inputs.targetProfitRate,
     platformSubsidy |-> inputs.platformSubsidy,
     sellerDiscount |-> inputs.sellerDiscount,
     isBXP |-> inputs.isBXP,
     isNewSeller |-> inputs.isNewSeller,
     returnRate |-> inputs.returnRate]

\* a dependency list that leaves returnRate out
EffectDependenciesWithoutReturnRate(inputs, rendered) ==
    <<inputs.countryCode, rendered.purchaseCostLocal, rendered.logisticsCostLocal,
      inputs.category, inputs.dutyRate, inputs.targetProfitRate,
      inputs.platformSubsidy, inputs.sellerDiscount, inputs.isBXP,
      inputs.isNewSeller>>

\* line 199: the dependency list of the effect
EffectDependencies(inputs, rendered) ==
    <<inputs.countryCode, rendered.purchaseCostLocal, rendered.logisticsCostLocal,
      inputs.category, inputs.dutyRate, inputs.targetProfitRate,
      inputs.platformSubsidy, inputs.sellerDiscount, inputs.isBXP,
      inputs.isNewSeller, inputs.returnRate>>

\* the component after its first render: no effect has run
HomeMounted ==
    [inputs |-> HomeDefaults, rendered |-> Render(HomeDefaults), deps |-> <<>>,
     result |-> null]

----------------------------------------------------------------------------
(* The calls.  A caller invokes one of the four functions with arguments   *)
(* drawn from the sets below; fn, args and ret hold the function running,  *)
(* its arguments and what it returned, until the caller takes the result.  *)

VARIABLES fn, args, ret

\* the Home component
VARIABLE home

vars == <<fn, args, ret, countries, home>>

MaxCostLevel == 2
MaxOrders == 52

Categories == {"electronics", "other"}
ConfiguredCodes == SHIPPED_CODES \cup HYPOTHETICAL_CODES
CountryCodes == ConfiguredCodes \cup {"XX"}

RECURSIVE Pow100(_)
Pow100(k) == IF k = 0 THEN 1 ELSE 100 * Pow100(k - 1)

\* <<purchaseCost, logisticsCost>>: nothing at all, then 20, 2000, ... shipped for 5.5
Costs ==
    {<<Zero, Zero>>} \cup
    {<<Dec(20 * Pow100(k - 1), 1), Dec(55, 10)>> : k \in 1..MaxCostLevel}
TargetProfitRates == {Dec(-10, 100), Dec(30, 100)}
\* <<sellerDiscount, platformSubsidy>>
Promotions == {<<Zero, Zero>>, <<Dec(5, 1), Zero>>, <<Zero, Dec(2, 1)>>,
               <<Dec(5, 1), Dec(2, 1)>>}
ReturnRates == {Zero, Dec(5, 100)}

\* the default figures of the Home page, passed as amounts in local currency
DefaultCall(countryCode) ==
    [countryCode |-> countryCode, purchaseCost |-> Dec(20, 1),
     logisticsCost |-> Dec(55, 10), category |-> "other",
     dutyRate |-> Dec(30, 100), targetProfitRate |-> Dec(30, 100),
     platformSubsidy |-> Zero, sellerDiscount |-> Zero,
     isBXP |-> TRUE, isNewSeller |-> FALSE, returnRate |-> Dec(5, 100)]

\* costs, target rates and promotions in every country
AmountCalls ==
    {[DefaultCall(c) EXCEPT !.purchaseCost = p[1], !.logisticsCost = p[2],
                            !.targetProfitRate = r,
                            !.sellerDiscount = d[1], !.platformSubsidy = d[2]] :
        c \in ConfiguredCodes, p \in Costs, r \in TargetProfitRates,
        d \in Promotions}

\* categories and seller flags in every country
FlagCalls ==
    {[DefaultCall(c) EXCEPT !.category = k, !.isBXP = b, !.isNewSeller = n] :
        c \in ConfiguredCodes, k \in Categories, b \in BOOLEAN, n \in BOOLEAN}

\* return rates in every country
ReturnCalls ==
    {[DefaultCall(c) EXCEPT !.returnRate = q] :
        c \in ConfiguredCodes, q \in ReturnRates}

\* a cost base of 25.5 baht, split between purchase and logistics
SplitCalls ==
    {[DefaultCall("TH") EXCEPT !.purchaseCost = Dec(p, 10),
                               !.logisticsCost = Dec(255 - p, 10),
                               !.targetProfitRate = r] :
        p \in {0, 100, 200, 255}, r \in TargetProfitRates}

\* a bulk order in Thailand: purchaseCost 10^10 baht
BulkCalls ==
    {[DefaultCall("TH") EXCEPT !.purchaseCost = Mul(Dec(100000, 1), Dec(100000, 1)),
                               !.logisticsCost = Zero]}

\* a country code that is not in the table
UnknownCalls == {DefaultCall("XX")}

PricingCalls ==
    AmountCalls \cup FlagCalls \cup ReturnCalls \cup SplitCalls \cup BulkCalls
        \cup UnknownCalls

Idle == [none |-> TRUE]

Init ==
    /\ fn = "idle"
    /\ args = Idle
    /\ ret = Idle
    /\ countries = COUNTRIES
    /\ home = HomeMounted

CallCalculatePricing ==
    /\ fn = "idle"
    /\ \E a \in PricingCalls :
         /\ fn' = "calculatePricing"
         /\ args' = a
         /\ ret' = Invoke(a)
    /\ countries' = CountriesAfterCall(countries)
    /\ UNCHANGED home

CallGetCommissionRate ==
    /\ fn = "idle"
    /\ \E c \in CountryCodes, k \in Categories, b \in BOOLEAN :
         /\ fn' = "getCommissionRate"
         /\ args' = [countryCode |-> c, category |-> k, isBXP |-> b]
         /\ ret' = [threw |-> FALSE, value |-> getCommissionRate(c, k, b)]
    /\ countries' = CountriesAfterCall(countries)
    /\ UNCHANGED home

CallGetCommerceGrowthRate ==
    /\ fn = "idle"
    /\ \E c \in CountryCodes, k \in Categories :
         /\ fn' = "getCommerceGrowthRate"
         /\ args' = [countryCode |-> c, category |-> k]
         /\ ret' = [threw |-> FALSE, value |-> getCommerceGrowthRate(c, k)]
    /\ countries' = CountriesAfterCall(countries)
    /\ UNCHANGED home

CallGetOrderProcessingFee ==
    /\ fn = "idle"
    /\ \E c \in CountryCodes, n \in BOOLEAN, m \in 0..MaxOrders :
         /\ fn' = "getOrderProcessingFee"
         /\ args' = [countryCode |-> c, isNewSeller |-> n, monthlyOrderCount |-> m]
         /\ ret' = [threw |-> FALSE, value |-> getOrderProcessingFee(c, n, m)]
    /\ countries' = CountriesAfterCall(countries)
    /\ UNCHANGED home

\* the caller takes the result (or catches the error)
Return ==
    /\ fn # "idle"
    /\ fn' = "idle"
    /\ args' = Idle
    /\ ret' = Idle
    /\ UNCHANGED <<countries, home>>

Next ==
    \/ CallCalculatePricing
    \/ CallGetCommissionRate
    \/ CallGetCommerceGrowthRate
    \/ CallGetOrderProcessingFee
    \/ Return

Spec == Init /\ [][Next]_vars

----------------------------------------------------------------------------
(* The Home component at work.  An event handler calls one setter; the     *)
(* component renders with the new state; the effect runs when a dependency *)
(* of the render differs from the one of the render before (always after   *)
(* the first render) and stores what calculatePricing returns.  React runs *)
(* the effect of a render before it handles the next event.                *)

MaxChanged == 2

\* the values the controls of the page are set to: of the countries, the
\* initial one and the two that the switches isNewSeller and isBXP are for
InputValues ==
    [countryCode |-> {"TH", "PH", "MY"},
     purchaseCostCNY |-> {Dec(20, 1), Dec(50, 1)},
     logisticsCostCNY |-> {Dec(55, 10), Zero},
     category |-> Categories,
     dutyRate |-> {Dec(30, 100), Zero},
     targetProfitRate |-> {Dec(30, 100), Dec(-10, 100)},
     platformSubsidy |-> {Zero, Dec(2, 1)},
     sellerDiscount |-> {Zero, Dec(5, 1)},
     isBXP |-> BOOLEAN,
     isNewSeller |-> BOOLEAN,
     returnRate |-> {Dec(5, 100), Zero}]

\* how many inputs differ from their initial state
ChangedInputs(inputs) ==
    Cardinality({f \in DOMAIN HomeDefaults : inputs[f] # HomeDefaults[f]})

\* the effect of the last render has run (or had nothing to run for)
EffectSettled == home.deps = EffectDependencies(home.inputs, home.rendered)

\* an event handler may call the setter of field with value
MaySet(field, value) ==
    /\ EffectSettled
    /\ ChangedInputs([home.inputs EXCEPT ![field] = value]) <= MaxChanged

\* the component after the setter of field is called with value, rendered anew
AfterSet(field, value) ==
    [home EXCEPT !.inputs = [home.inputs EXCEPT ![field] = value],
                 !.rendered = Render([home.inputs EXCEPT ![field] = value])]

\* the setters of lines 166-176, each with the render that follows
setCountryCode ==
    \E v \in InputValues.countryCode :
        /\ MaySet("countryCode", v)
        /\ home' = AfterSet("countryCode", v)
        /\ UNCHANGED <<fn, args, ret, countries>>

setPurchaseCostCNY ==
    \E v \in InputValues.purchaseCostCNY :
        /\ MaySet("purchaseCostCNY", v)
        /\ home' = AfterSet("purchaseCostCNY", v)
        /\ UNCHANGED <<fn, args, ret, countries>>

setLogisticsCostCNY ==
    \E v \in InputValues.logisticsCostCNY :
        /\ MaySet("logisticsCostCNY", v)
        /\ home' = AfterSet("logisticsCostCNY", v)
        /\ UNCHANGED <<fn, args, ret, countries>>

setCategory ==
    \E v \in InputValues.category :
        /\ MaySet("category", v)
        /\ home' = AfterSet("category", v)
        /\ UNCHANGED <<fn, args, ret, countries>>

setDutyRate ==
    \E v \in InputValues.dutyRate :
        /\ MaySet("dutyRate", v)
        /\ home' = AfterSet("dutyRate", v)
        /\ UNCHANGED <<fn, args, ret, countries>>

setTargetProfitRate ==
    \E v \in InputValues.targetProfitRate :
        /\ MaySet("targetProfitRate", v)
        /\ home' = AfterSet("targetProfitRate", v)
        /\ UNCHANGED <<fn, args, ret, countries>>

setPlatformSubsidy ==
    \E v \in InputValues.platformSubsidy :
        /\ MaySet("platformSubsidy", v)
        /\ home' = AfterSet("platformSubsidy", v)
        /\ UNCHANGED <<fn, args, ret, countries>>

setSellerDiscount ==
    \E v \in InputValues.sellerDiscount :
        /\ MaySet("sellerDiscount", v)
        /\ home' = AfterSet("sellerDiscount", v)
        /\ UNCHANGED <<fn, args, ret, countries>>

setIsBXP ==
    \E v \in InputValues.isBXP :
        /\ MaySet("isBXP", v)
        /\ home' = AfterSet("isBXP", v)
        /\ UNCHANGED <<fn, args, ret, countries>>

setIsNewSeller ==
    \E v \in InputValues.isNewSeller :
        /\ MaySet("isNewSeller", v)
        /\ home' = AfterSet("isNewSeller", v)
        /\ UNCHANGED <<fn, args, ret, countries>>

setReturnRate ==
    \E v \in InputValues.returnRate :
        /\ MaySet("returnRate", v)
        /\ home' = AfterSet("returnRate", v)
        /\ UNCHANGED <<fn, args, ret, countries>>

\* lines 184-199: the effect, and setResult
RunEffect ==
    /\ ~EffectSettled
    /\ home' = [home EXCEPT
                   !.deps = EffectDependencies(home.inputs, home.rendered),
                   !.result = calculatePricing(EffectArguments(home.inputs, home.rendered))]
    /\ UNCHANGED <<fn, args, ret, countries>>

HomeNext ==
    \/ setCountryCode
    \/ setPurchaseCostCNY
    \/ setLogisticsCostCNY
    \/ setCategory
    \/ setDutyRate
    \/ setTargetProfitRate
    \/ setPlatformSubsidy
    \/ setSellerDiscount
    \/ setIsBXP
    \/ setIsNewSeller
    \/ setReturnRate
    \/ RunEffect

HomeSpec == Init /\ [][HomeNext]_vars

----------------------------------------------------------------------------
(* Properties of the calls.                                                *)

\* a call of calculatePricing has returned a PricingResult
PricingReturned == fn = "calculatePricing" /\ ~ret.threw

\* commissionRate + growthServiceRate + transactionFeeRate + vatRate/(1+vatRate)
CombinedRate(s) ==
    Add(Add(Add(s.commissionRate, s.commerceGrowthRate), s.transactionFeeRate),
        Div(s.vatRate, Add(One, s.vatRate)))

\* a schedule the solver is specified for
ValidSchedule(s) == Lt(CombinedRate(s), One)

\* the call in progress returned a PricingResult under a valid schedule
SolvedValid == PricingReturned /\ ValidSchedule(ret.schedule)

(* C1: under every schedule with a combined rate below 1, the result of    *)
(* calculatePricing has |revenue.actualRevenue - costBase * (1 +           *)
(* targetProfitRate)| < 0.01, also when the growth-service cap binds and   *)
(* when the ten iterations are used up.                                    *)
C1_RevenueMeetsTarget ==
    SolvedValid =>
        WithinTolerance(ret.value.revenue.actualRevenue, targetRevenue(args))

(* C1, the failing case in a shipped schedule: a Thai bulk order uses up   *)
(* the ten iterations and returns a revenue 0.01 or more off the target.   *)
C1_ThaiBulkOffTarget ==
    /\ SolvedValid
    /\ args.countryCode = "TH"
    /\ ~ret.loop.broke
    /\ Len(ret.loop.trace) = MaxIterations
    /\ ~WithinTolerance(ret.value.revenue.actualRevenue, targetRevenue(args))

\* the closed-form seed P0 of the call that returned
SeedOfCall == SeedPrice(ret.schedule, args, ret.locals)

\* the growth-service fee of the schedule has no cap (absent, or 0 || Infinity)
Uncapped(s) == s.commerceGrowthFeeCap = Infinity

\* |x - y| < 0.01
Within(x, y) == Lt(Abs(Sub(x, y)), Dec(1, 100))

\* x and y agree to six decimal places
Same(x, y) == Lt(Abs(Sub(x, y)), Dec(1, 1000000))

(* C2 (as stated): under a valid schedule with an uncapped growth-service  *)
(* fee, retailPrice is within 0.01 of the seed P0, for every request,      *)
(* discounted and subsidised ones included.                                *)
C2_PriceIsSeed ==
    (SolvedValid /\ Uncapped(ret.schedule)) =>
        Within(ret.value.retailPrice, SeedOfCall)

(* what the seed leaves of the target at P0 when no cap binds:             *)
(* 2 * sellerDiscount * (commissionRate + growthServiceRate)               *)
(*   + (sellerDiscount + platformSubsidy) * transactionFeeRate             *)
SeedResidual(s, a) ==
    Add(Mul(Mul(Dec(2, 1), a.sellerDiscount),
            Add(s.commissionRate, s.commerceGrowthRate)),
        Mul(Add(a.sellerDiscount, a.platformSubsidy), s.transactionFeeRate))

\* the price the loop ends at from the seed P0 when no cap binds
UncappedPrice(s, a, l, P0) ==
    IF Lt(Abs(SeedResidual(s, a)), Dec(1, 100)) THEN P0
    ELSE Sub(P0, Div(SeedResidual(s, a), l.denominator))

(* C2 (amended): under a valid schedule with an uncapped growth-service    *)
(* fee, retailPrice is the seed P0 when the seed's residual r = 2 *        *)
(* sellerDiscount * (commissionRate + growthServiceRate) + (sellerDiscount *)
(* + platformSubsidy) * transactionFeeRate has |r| < 0.01 (so with no      *)
(* discount and no subsidy), and P0 - r / (1 - combined rate) otherwise.   *)
C2_PriceIsSeedLessResidual ==
    (SolvedValid /\ Uncapped(ret.schedule)) =>
        Same(ret.value.retailPrice,
             UncappedPrice(ret.schedule, args, ret.locals, SeedOfCall))

\* C2: a discounted request under an uncapped schedule ends 0.01 or more off P0
C2_DiscountMovesPrice ==
    /\ SolvedValid
    /\ Uncapped(ret.schedule)
    /\ Gt(args.sellerDiscount, Zero)
    /\ ret.loop.broke
    /\ Len(ret.loop.trace) = 2
    /\ ~Within(ret.value.retailPrice, SeedOfCall)

(* C3: calculatePricing rejects every schedule whose combined rate is 1 or *)
(* more: it reports DegenerateSchedule and returns no PricingResult.       *)
C3_RejectsDegenerate ==
    (/\ fn = "calculatePricing"
     /\ HasConfig(args.countryCode)
     /\ ~ValidSchedule(ResolveSchedule(args)))
        => (ret.threw /\ ret.error = "DegenerateSchedule")

(* C4: for a country code that is not in COUNTRIES, each of the four       *)
(* functions reports UnknownCountry and returns no defaulted value.        *)
C4_UnknownCountryReported ==
    (fn # "idle" /\ ~HasConfig(args.countryCode))
        => (ret.threw /\ ret.error = "UnknownCountry")

\* the request a at the target profit rate r
AtRate(a, r) == [a EXCEPT !.targetProfitRate = r]

\* the call with the result lo was solved at a lower price than the one with hi
PriceRises(lo, hi) == Lt(lo.value.retailPrice, hi.value.retailPrice)

\* both calls returned a revenue within 0.01 of their target
BothOnTarget(lo, hi) ==
    /\ Within(lo.value.revenue.actualRevenue, lo.locals.targetRevenue)
    /\ Within(hi.value.revenue.actualRevenue, hi.locals.targetRevenue)

TargetsApart(l, r1, r2) == Le(Dec(2, 100), Mul(l.costBase, Sub(r2, r1)))

OnTargetRises(lo, hi) == BothOnTarget(lo, hi) => PriceRises(lo, hi)

RisesOnTarget(lo, hi) == BothOnTarget(lo, hi) /\ PriceRises(lo, hi)

FeeOf(c) == COUNTRIES[c].orderProcessingFee
WaiverOf(c) == COUNTRIES[c].orderProcessingFeeWaiver

\* a call of getOrderProcessingFee for a country that charges the fee under a waiver
FeeCallUnderWaiver ==
    /\ fn = "getOrderProcessingFee"
    /\ HasConfig(args.countryCode)
    /\ Truthy(FeeOf(args.countryCode))
    /\ WaiverOf(args.countryCode).present

(* C6: where the waiver has existingSeller = true and                      *)
(* existingSellerFreeOrders = 50 (Philippines), getOrderProcessingFee      *)
(* returns 0 to an existing seller with exactly 50 orders and the full     *)
(* orderProcessingFee to one with 51.                                      *)
C6_WaiverBoundary ==
    (/\ FeeCallUnderWaiver
     /\ WaiverOf(args.countryCode).existingSeller
     /\ WaiverOf(args.countryCode).existingSellerFreeOrders = 50
     /\ ~args.isNewSeller)
        => /\ args.monthlyOrderCount = 50 => ret.value = Zero
           /\ args.monthlyOrderCount = 51 => ret.value = FeeOf(args.countryCode)

\* C6: an existing seller in the Philippines is charged 3 pesos with 51 orders
C6_FullFeeAt51 ==
    /\ fn = "getOrderProcessingFee"
    /\ args = [countryCode |-> "PH", isNewSeller |-> FALSE, monthlyOrderCount |-> 51]
    /\ ret.value = Dec(3, 1)

(* C7 (as stated), under a waiver that exempts new sellers and grants      *)
(* existing sellers free orders: getOrderProcessingFee returns 0 to a new  *)
(* seller and to a seller whose order count is strictly below the          *)
(* free-order threshold; in every other case, a count equal to the         *)
(* threshold included, it returns the fixed fee.                           *)
C7_FreeBelowThreshold ==
    (/\ FeeCallUnderWaiver
     /\ WaiverOf(args.countryCode).newSeller
     /\ WaiverOf(args.countryCode).existingSeller)
        => ret.value =
               IF \/ args.isNewSeller
                  \/ args.monthlyOrderCount
                         < WaiverOf(args.countryCode).existingSellerFreeOrders
               THEN Zero ELSE FeeOf(args.countryCode)

\* the waiver w exempts the seller
Waived(w, isNewSeller, monthlyOrderCount) ==
    /\ w.present
    /\ \/ isNewSeller /\ w.newSeller
       \/ /\ ~isNewSeller
          /\ w.existingSeller
          /\ monthlyOrderCount <= w.existingSellerFreeOrders

(* C7 (amended): for a country in the table, getOrderProcessingFee returns *)
(* 0 when the country charges no order-processing fee, when the seller is  *)
(* new and the waiver exempts new sellers, and when the seller is not new, *)
(* the waiver grants existing sellers free orders and the order count is   *)
(* at most (<=) existingSellerFreeOrders; in every other case it returns   *)
(* the fixed fee.                                                          *)
C7_FreeUpToThreshold ==
    (fn = "getOrderProcessingFee" /\ HasConfig(args.countryCode)) =>
        ret.value =
            IF \/ ~Truthy(FeeOf(args.countryCode))
               \/ Waived(WaiverOf(args.countryCode), args.isNewSeller,
                         args.monthlyOrderCount)
            THEN Zero ELSE FeeOf(args.countryCode)

\* C7: an existing seller in the Philippines pays nothing with exactly 50 orders
C7_FreeAtThreshold ==
    /\ fn = "getOrderProcessingFee"
    /\ args = [countryCode |-> "PH", isNewSeller |-> FALSE, monthlyOrderCount |-> 50]
    /\ Truthy(FeeOf("PH"))
    /\ ret.value = Zero

\* the cap the table gives the growth-service fee of the request, or undefined
ConfiguredCap(a) == getCommerceGrowthRate(a.countryCode, a.category).cap

\* discountedPrice * growthServiceRate of the call that returned
UncappedGrowthFee == Mul(ret.value.discountedPrice, ret.schedule.commerceGrowthRate)

RecomputedProfit(s, a, P) ==
    Sub(Sub(Sub(Sub(Sub(Sub(Sub(Sub(Sub(Sub(P,
        Mul(Sub(P, a.sellerDiscount), s.commissionRate)),
        Min(Mul(Sub(P, a.sellerDiscount), s.commerceGrowthRate),
            s.commerceGrowthFeeCap)),
        Mul(Sub(Sub(P, a.sellerDiscount), a.platformSubsidy), s.transactionFeeRate)),
        s.infrastructureFee),
        s.orderProcessingFee),
        Mul(Div(P, Add(One, s.vatRate)), s.vatRate)),
        Mul(a.purchaseCost, a.dutyRate)),
        Mul(Mul(a.purchaseCost, Add(One, a.dutyRate)), s.vatRate)),
        a.purchaseCost),
        a.logisticsCost)

(* C9: for every result of calculatePricing (with a finite retailPrice),   *)
(* the fees and taxes recomputed at retailPrice and subtracted, with       *)
(* costBase, from retailPrice give revenue.actualProfit to within 0.01.    *)
C9_RoundTrip ==
    (PricingReturned /\ IsFinite(ret.value.retailPrice)) =>
        Within(RecomputedProfit(ret.schedule, args, ret.value.retailPrice),
               ret.value.revenue.actualProfit)

(* C9: the round trip of a discounted, subsidised request whose growth fee *)
(* is at the cap and whose loop adjusted the price                         *)
C9_CappedRoundTrip ==
    /\ SolvedValid
    /\ ret.value.platformFees.commerceGrowth = ret.schedule.commerceGrowthFeeCap
    /\ Gt(args.sellerDiscount, Zero)
    /\ Gt(args.platformSubsidy, Zero)
    /\ Len(ret.loop.trace) > 1
    /\ IsFinite(ret.value.revenue.actualProfit)
    /\ Within(RecomputedProfit(ret.schedule, args, ret.value.retailPrice),
              ret.value.revenue.actualProfit)

\* the Thailand schedule for the category 'other'
ThailandOther ==
    [commissionRate       |-> Dec(642, 10000),
     commerceGrowthRate   |-> Dec(642, 10000),
     commerceGrowthFeeCap |-> Dec(199, 1),
     transactionFeeRate   |-> Dec(321, 10000),
     vatRate              |-> Dec(7, 100),
     infrastructureFee    |-> Dec(107, 100),
     orderProcessingFee   |-> Zero]

(* a returned call of the scenario: Thailand 'other', dutyRate 0.30,       *)
(* targetProfitRate 0.30, purchaseCost + logisticsCost = 25.5, no discount *)
(* and no subsidy                                                          *)
ScenarioReturned ==
    /\ PricingReturned
    /\ ret.schedule = ThailandOther
    /\ args.dutyRate = Dec(30, 100)
    /\ args.targetProfitRate = Dec(30, 100)
    /\ Add(args.purchaseCost, args.logisticsCost) = Dec(255, 10)
    /\ args.sellerDiscount = Zero
    /\ args.platformSubsidy = Zero

(* C10: in the scenario the loop leaves through the break within 3         *)
(* iterations, at |actualRevenue - 33.15| < 0.01, and the result returned  *)
(* has its actualRevenue within 0.01 of 33.15 too.                         *)
C10_ScenarioConverges ==
    ScenarioReturned =>
        /\ ret.loop.broke
        /\ Len(ret.loop.trace) <= 3
        /\ Within(ret.loop.trace[Len(ret.loop.trace)].actualRevenue, Dec(3315, 100))
        /\ Within(ret.value.revenue.actualRevenue, Dec(3315, 100))

\* C10: the scenario with the whole cost base in logistics, solved by the seed
C10_LogisticsOnlySolved ==
    /\ ScenarioReturned
    /\ args.purchaseCost = Zero
    /\ ret.loop.broke
    /\ Len(ret.loop.trace) = 1
    /\ Within(ret.value.revenue.actualRevenue, Dec(3315, 100))

(* a returned call of the scenario of C10 at targetProfitRate -0.10        *)
NegativeMarginReturned ==
    /\ PricingReturned
    /\ ret.schedule = ThailandOther
    /\ args.dutyRate = Dec(30, 100)
    /\ args.targetProfitRate = Dec(-10, 100)
    /\ Add(args.purchaseCost, args.logisticsCost) = Dec(255, 10)
    /\ args.sellerDiscount = Zero
    /\ args.platformSubsidy = Zero

(* C11: in the Thailand scenario, targetProfitRate -0.10 is solved at a    *)
(* retailPrice strictly below the one of +0.30, with actualProfit < 0, and *)
(* by the same rule as any other rate: the revenue returned is within 0.01 *)
(* of costBase * (1 - 0.10) = 22.95.                                       *)
C11_NegativeMargin ==
    NegativeMarginReturned =>
        /\ Lt(ret.value.retailPrice,
              Invoke(AtRate(args, Dec(30, 100))).value.retailPrice)
        /\ Lt(ret.value.revenue.actualProfit, Zero)
        /\ Within(ret.value.revenue.actualRevenue, Dec(2295, 100))

\* C11: the scenario at -0.10 with purchaseCost 20: a loss of about 2.55
C11_SoldAtLoss ==
    /\ NegativeMarginReturned
    /\ args.purchaseCost = Dec(20, 1)
    /\ Within(ret.value.revenue.actualProfit, Dec(-255, 100))
    /\ Lt(ret.value.retailPrice,
          Invoke(AtRate(args, Dec(30, 100))).value.retailPrice)

\* the commission entry of a country in the table
CommissionOf(c) == COUNTRIES[c].commissionRate

\* the rate of the seller tier bxp: the midpoint of its range, or its flat rate
TierRate(bxp, category) ==
    IF bxp.range # NoRange THEN Midpoint(bxp.range)
    ELSE IF bxp[category] # undefined THEN bxp[category]
    ELSE bxp.other

\* the country defines a tier-specific commission and the seller is not of the default tier
TierRuleApplies(countryCode, isBXP) == CommissionOf(countryCode).bxp.present /\ ~isBXP

\* a call of getCommissionRate for a country in the table
CommissionCall == fn = "getCommissionRate" /\ HasConfig(args.countryCode)

(* C12: whenever the country defines a bxp commission and isBXP is false,  *)
(* getCommissionRate returns the tier's rate, or the midpoint of the       *)
(* tier's range, whether the tier is given as a range or as flat rates.    *)
C12_TierRateFirst ==
    (CommissionCall /\ TierRuleApplies(args.countryCode, args.isBXP)) =>
        ret.value = TierRate(CommissionOf(args.countryCode).bxp, args.category)

(* C12, the failing case: a tier given as flat rates (0.3 for 'other') is  *)
(* passed over for the country's own rate of 0.1.                          *)
C12_FlatTierPassedOver ==
    /\ fn = "getCommissionRate"
    /\ args = [countryCode |-> "TF", category |-> "other", isBXP |-> FALSE]
    /\ ret.value = Dec(1, 10)

(* C13: when the country defines a commission range and no tier rule       *)
(* applies, getCommissionRate returns (min + max) / 2 for every category,  *)
(* whatever flat rates the country defines beside the range.               *)
C13_RangeMidpoint ==
    (/\ CommissionCall
     /\ CommissionOf(args.countryCode).range # NoRange
     /\ ~TierRuleApplies(args.countryCode, args.isBXP))
        => ret.value = Midpoint(CommissionOf(args.countryCode).range)

(* C13: a country with the range [0.04, 0.06] and an electronics rate of   *)
(* 0.08 is charged the midpoint 0.05 for electronics                       *)
C13_MidpointOverFlatRate ==
    /\ fn = "getCommissionRate"
    /\ args = [countryCode |-> "TR", category |-> "electronics", isBXP |-> TRUE]
    /\ CommissionOf("TR").electronics = Dec(8, 100)
    /\ CommissionOf("TR").range = <<Dec(4, 100), Dec(6, 100)>>
    /\ ret.value = Dec(5, 100)

\* the rate of the category where the entry defines one, else its 'other' rate, else 0
DedicatedRate(rate, category) ==
    IF rate[category] # undefined THEN rate[category]
    ELSE IF rate.other # undefined THEN rate.other
    ELSE Zero

(* C14: when the country defines no commission range (and no tier rule     *)
(* applies), getCommissionRate returns the rate of the category whenever   *)
(* the country defines one, a defined rate of 0 included, and the 'other'  *)
(* rate only when the category has no rate of its own.                     *)
C14_CategoryRateFirst ==
    (/\ CommissionCall
     /\ CommissionOf(args.countryCode).range = NoRange
     /\ ~TierRuleApplies(args.countryCode, args.isBXP))
        => ret.value = DedicatedRate(CommissionOf(args.countryCode), args.category)

(* C14, the failing case: an electronics rate defined as 0 is passed over  *)
(* for the 'other' rate 0.1.                                               *)
C14_ZeroRatePassedOver ==
    /\ fn = "getCommissionRate"
    /\ args = [countryCode |-> "TF", category |-> "electronics", isBXP |-> TRUE]
    /\ CommissionOf("TF").electronics = Zero
    /\ ret.value = Dec(1, 10)

\* the growth-service entry of a country in the table
GrowthOf(c) == COUNTRIES[c].commerceGrowthRate

\* getCommerceGrowthRate returned the rate by the category fallback, and the cap
GrowthRateResolved ==
    (/\ fn = "getCommerceGrowthRate"
     /\ HasConfig(args.countryCode)
     /\ GrowthOf(args.countryCode).present)
        => /\ ret.value.rate = DedicatedRate(GrowthOf(args.countryCode), args.category)
           /\ ret.value.cap = GrowthOf(args.countryCode).cap

\* calculatePricing charged min(discountedPrice * rate, cap) under every cap present
PresentCapEnforced ==
    PricingReturned =>
        ret.value.platformFees.commerceGrowth =
            IF ConfiguredCap(args) = undefined THEN UncappedGrowthFee
            ELSE Min(UncappedGrowthFee, ConfiguredCap(args))

(* C15: getCommerceGrowthRate resolves the rate by the category fallback   *)
(* of the commission (category rate, else 'other' rate, else 0) and        *)
(* carries the country's cap; calculatePricing leaves the fee uncapped     *)
(* only when the country's data has no cap: a cap that is present, 0       *)
(* included, is enforced as min(discountedPrice * rate, cap).              *)
C15_OnlyAbsentCapUncapped == GrowthRateResolved /\ PresentCapEnforced

(* C15, the failing case: under a cap of 0 a positive fee of               *)
(* discountedPrice * rate is charged.                                      *)
C15_ZeroCapNotEnforced ==
    /\ PricingReturned
    /\ ConfiguredCap(args) = Zero
    /\ ret.value.platformFees.commerceGrowth = UncappedGrowthFee
    /\ Gt(ret.value.platformFees.commerceGrowth, Zero)

(* the fees f charged at price P have the bases of the claim: P -          *)
(* sellerDiscount for the commission and the growth fee, P - sellerDiscount *)
(* - platformSubsidy for the transaction fee                               *)
FeesOnBases(s, a, P, f) ==
    /\ f.commissionFee = Mul(Sub(P, a.sellerDiscount), s.commissionRate)
    /\ f.commerceGrowthFee =
           Min(Mul(Sub(P, a.sellerDiscount), s.commerceGrowthRate),
               s.commerceGrowthFeeCap)
    /\ f.transactionFee =
           Mul(Sub(Sub(P, a.sellerDiscount), a.platformSubsidy), s.transactionFeeRate)

\* the fees of the result v
FeesOfResult(v) ==
    [commissionFee     |-> v.platformFees.commission,
     commerceGrowthFee |-> v.platformFees.commerceGrowth,
     transactionFee    |-> v.platformFees.transaction]

(* at the price P the request a with the subsidy q is charged the          *)
(* commission, growth fee and sales VAT of f, and a transaction fee that   *)
(* is lower by (q - platformSubsidy) * transactionFeeRate                  *)
OnlyTransactionFeeMoves(s, a, P, f, q) ==
    /\ commissionFee(s, [a EXCEPT !.platformSubsidy = q], P) = f.commissionFee
    /\ commerceGrowthFee(s, [a EXCEPT !.platformSubsidy = q], P) = f.commerceGrowthFee
    /\ IsFinite(P) =>
           Same(Sub(f.transactionFee,
                    transactionFee(s, [a EXCEPT !.platformSubsidy = q], P)),
                Mul(Sub(q, a.platformSubsidy), s.transactionFeeRate))

\* the subsidies a request is compared under
Subsidies == {d[2] : d \in Promotions}

(* C16: in every iteration and in the result of calculatePricing the       *)
(* commission and the growth fee are charged on retailPrice -              *)
(* sellerDiscount and the transaction fee on retailPrice - sellerDiscount  *)
(* - platformSubsidy; at the price returned, another platformSubsidy       *)
(* changes the transaction fee and no other fee.                           *)
C16_SubsidyAsymmetry ==
    PricingReturned =>
        /\ \A i \in 1..Len(ret.loop.trace) :
               FeesOnBases(ret.schedule, args, ret.loop.trace[i].P, ret.loop.trace[i])
        /\ FeesOnBases(ret.schedule, args, ret.value.retailPrice,
                       FeesOfResult(ret.value))
        /\ \A q \in Subsidies :
               OnlyTransactionFeeMoves(ret.schedule, args, ret.value.retailPrice,
                                       FeesOfResult(ret.value), q)

(* C16: a discounted, subsidised request whose loop adjusted the price:    *)
(* the subsidy is taken off the base of the transaction fee and not off    *)
(* the base of the commission                                              *)
C16_SubsidisedRequest ==
    /\ SolvedValid
    /\ Gt(args.sellerDiscount, Zero)
    /\ Gt(args.platformSubsidy, Zero)
    /\ Len(ret.loop.trace) > 1
    /\ Gt(ret.schedule.transactionFeeRate, Zero)
    /\ ret.value.platformFees.commission =
           Mul(ret.value.discountedPrice, ret.schedule.commissionRate)
    /\ Lt(ret.value.platformFees.transaction,
          Mul(ret.value.discountedPrice, ret.schedule.transactionFeeRate))

(* C17: with costBase = 0 calculatePricing returns profitRate 0 and        *)
(* adjustedProfitRate 0 (not NaN, not infinite); with costBase > 0,        *)
(* profitRate is actualProfit / costBase.                                  *)
C17_ProfitRateDefined ==
    PricingReturned =>
        /\ (ret.locals.costBase = Zero) =>
               (/\ ret.value.revenue.profitRate = Zero
                /\ ret.value.returnLoss.adjustedProfitRate = Zero)
        /\ Gt(ret.locals.costBase, Zero) =>
               (ret.value.revenue.profitRate =
                    Div(ret.value.revenue.actualProfit, ret.locals.costBase))

\* C17: a request in Thailand with no purchase and no logistics cost, rated 0
C17_ZeroCostBase ==
    /\ PricingReturned
    /\ args.countryCode = "TH"
    /\ args.purchaseCost = Zero
    /\ args.logisticsCost = Zero
    /\ ret.value.costs.totalCost = Zero
    /\ IsFinite(ret.value.revenue.actualProfit)
    /\ ret.value.revenue.profitRate = Zero
    /\ ret.value.returnLoss.adjustedProfitRate = Zero

(* C18: in every result, returnLoss.returnCost is revenue.actualRevenue *  *)
(* returnRate and returnLoss.adjustedProfit is revenue.actualProfit -      *)
(* returnCost, where actualRevenue is the one recomputed at the final      *)
(* price: retailPrice - totalFees - totalTax.                              *)
C18_ReturnLoss ==
    PricingReturned =>
        /\ ret.value.revenue.actualRevenue =
               Sub(Sub(ret.value.retailPrice, ret.value.platformFees.totalFees),
                   ret.value.taxes.totalTax)
        /\ ret.value.returnLoss.returnCost =
               Mul(ret.value.revenue.actualRevenue, args.returnRate)
        /\ ret.value.returnLoss.adjustedProfit =
               Sub(ret.value.revenue.actualProfit, ret.value.returnLoss.returnCost)

\* C18: with 5% of the orders returned, the profit is lowered by 5% of the revenue
C18_ReturnedGoods ==
    /\ SolvedValid
    /\ args.returnRate = Dec(5, 100)
    /\ Gt(ret.value.revenue.actualRevenue, Zero)
    /\ ret.value.returnLoss.returnCost =
           Mul(ret.value.revenue.actualRevenue, Dec(5, 100))
    /\ Lt(ret.value.returnLoss.adjustedProfit, ret.value.revenue.actualProfit)

\* the amounts of the request a are all 0 or more
NonNegativeRequest(a) ==
    \A x \in {a.purchaseCost, a.logisticsCost, a.sellerDiscount, a.platformSubsidy,
               a.returnRate} : Le(Zero, x)

\* the monetary fields of the result v other than actualProfit and adjustedProfit
MoneyFields(v) ==
    {v.retailPrice, v.preTaxPrice, v.discountedPrice,
     v.costs.purchaseCost, v.costs.logisticsCost, v.costs.totalCost,
     v.taxes.importDuty, v.taxes.importVAT, v.taxes.salesVAT, v.taxes.totalTax,
     v.platformFees.commission, v.platformFees.commerceGrowth,
     v.platformFees.transaction, v.platformFees.infrastructure,
     v.platformFees.orderProcessing, v.platformFees.totalFees,
     v.subsidyDiscount.sellerDiscount, v.subsidyDiscount.platformSubsidy,
     v.revenue.actualRevenue, v.returnLoss.returnCost}

----------------------------------------------------------------------------
(* Properties of the loop of lines 96-108, read off the trace of the call. *)

\* the iterates of the call that returned, and their number
LoopTrace == ret.loop.trace
Iterates == Len(ret.loop.trace)

\* targetRevenue - actualRevenue at iterate k
ResidualAt(k) == Sub(ret.locals.targetRevenue, LoopTrace[k].actualRevenue)

\* iterate k passes the test of line 104
PassesAt(k) == WithinTolerance(LoopTrace[k].actualRevenue, ret.locals.targetRevenue)

\* the price the adjustment of lines 106-107 makes of iterate k
AdjustedAt(k) == AdjustedPrice(ret.locals, LoopTrace[k].P, LoopTrace[k].actualRevenue)

(* C21: the loop runs at least one and at most 10 iterations and adjusts   *)
(* the price at every iterate but one that passes the test |actualRevenue  *)
(* - targetRevenue| < 0.01; it stops at the first iterate that passes,     *)
(* without adjusting P there, and retailPrice is that P.  When no iterate  *)
(* passes, 10 adjustments are made and retailPrice is the P after the      *)
(* 10th, which no iteration tested.                                        *)
C21_LoopTerminates ==
    PricingReturned =>
        /\ Iterates >= 1
        /\ Iterates <= MaxIterations
        /\ LoopTrace[1].P = SeedOfCall
        /\ \A k \in 1..(Iterates - 1) :
              /\ ~PassesAt(k)
              /\ LoopTrace[k + 1].P = AdjustedAt(k)
        /\ ret.loop.broke =>
              /\ PassesAt(Iterates)
              /\ ret.value.retailPrice = LoopTrace[Iterates].P
        /\ ~ret.loop.broke =>
              /\ Iterates = MaxIterations
              /\ ~PassesAt(Iterates)
              /\ ret.value.retailPrice = AdjustedAt(Iterates)

(* C21: a call that stopped at its fourth iterate, which passed the test   *)
(* with a residual left, and returned the P of that iterate unadjusted     *)
C21_StoppedAtFourth ==
    /\ PricingReturned
    /\ ret.loop.broke
    /\ Iterates = 4
    /\ ResidualAt(4) # Zero
    /\ ret.value.retailPrice = LoopTrace[4].P
    /\ ret.value.retailPrice # AdjustedAt(4)

\* the growth-service fee of iterate k is the (finite) cap
CapBindsAt(k) ==
    /\ IsFinite(ret.schedule.commerceGrowthFeeCap)
    /\ LoopTrace[k].commerceGrowthFee = ret.schedule.commerceGrowthFeeCap

(* C22: under every valid schedule with a finite cap, once the cap binds   *)
(* at an iterate the absolute residual |targetRevenue - actualRevenue| of  *)
(* the next iterate is strictly smaller, and the loop leaves through the   *)
(* break within its 10 iterations.                                         *)
C22_CappedLoopConverges ==
    SolvedValid =>
        \A k \in 1..Iterates :
            CapBindsAt(k) =>
                /\ k < Iterates => Lt(Abs(ResidualAt(k + 1)), Abs(ResidualAt(k)))
                /\ ret.loop.broke

(* C22, the failing case in a shipped schedule: the cap binds at every     *)
(* iterate of a Thai bulk order and the residual shrinks at every step,    *)
(* yet the 10 iterations are used up before the break is reached.          *)
C22_ThaiBulkBudgetSpent ==
    /\ SolvedValid
    /\ args.countryCode = "TH"
    /\ Iterates = MaxIterations
    /\ \A k \in 1..Iterates : CapBindsAt(k)
    /\ \A k \in 1..(Iterates - 1) : Lt(Abs(ResidualAt(k + 1)), Abs(ResidualAt(k)))
    /\ ~PassesAt(Iterates)
    /\ ~ret.loop.broke

\* the cap binds at iterate k and at the next one
CapBindsFrom(k) == CapBindsAt(k) /\ CapBindsAt(k + 1)

\* growthServiceRate / denominator, the factor between capped residuals
CappedRatio == Div(ret.schedule.commerceGrowthRate, ret.locals.denominator)

(* C23 (as stated): under a valid schedule, where the cap binds at two     *)
(* consecutive iterates the residual actualRevenue - targetRevenue keeps   *)
(* its sign from the one to the next (the iterates stay on one side of the *)
(* solution) and gets strictly smaller in absolute value.                  *)
C23_MonotoneApproach ==
    SolvedValid =>
        \A k \in 1..(Iterates - 1) :
            CapBindsFrom(k) =>
                /\ ~Lt(Mul(ResidualAt(k), ResidualAt(k + 1)), Zero)
                /\ Lt(Abs(ResidualAt(k + 1)), Abs(ResidualAt(k)))

(* C23 (amended): under a valid schedule, where the cap binds at two       *)
(* consecutive iterates k and k + 1 the residual r = targetRevenue -       *)
(* actualRevenue satisfies r(k+1) = -(growthServiceRate / denominator) *   *)
(* r(k): it changes sign at every iteration, so successive iterates lie on *)
(* opposite sides of the solution, and it gets smaller in absolute value   *)
(* exactly when growthServiceRate < denominator.                           *)
C23_AlternatingApproach ==
    SolvedValid =>
        \A k \in 1..(Iterates - 1) :
            CapBindsFrom(k) =>
                /\ Same(ResidualAt(k + 1), Sub(Zero, Mul(CappedRatio, ResidualAt(k))))
                /\ Lt(Mul(ResidualAt(k), ResidualAt(k + 1)), Zero)
                /\ Lt(ret.schedule.commerceGrowthRate, ret.locals.denominator)
                      <=> Lt(Abs(ResidualAt(k + 1)), Abs(ResidualAt(k)))

(* C23: a Thai request whose growth fee is at the cap from the seed on:    *)
(* the seed's revenue is above the target, the next iterate's below        *)
C23_ResidualFlipsSign ==
    /\ SolvedValid
    /\ args.countryCode = "TH"
    /\ Iterates >= 3
    /\ CapBindsFrom(1)
    /\ Lt(ResidualAt(1), Zero)
    /\ Gt(ResidualAt(2), Zero)
    /\ Lt(Abs(ResidualAt(2)), Abs(ResidualAt(1)))

\* the cap binds at no iterate of the call
NeverCapped == \A k \in 1..Iterates : ~CapBindsAt(k)

(* C26: under a valid schedule, when the cap binds at no iterate the loop  *)
(* leaves through the break after at most one adjustment, whatever         *)
(* sellerDiscount and platformSubsidy are: after none exactly when the     *)
(* seed passes the test, and after one with a residual of 0 (to 6          *)
(* decimals; exactly 0 in exact arithmetic).                               *)
C26_OneAdjustmentUncapped ==
    (SolvedValid /\ NeverCapped) =>
        /\ ret.loop.broke
        /\ Iterates <= 2
        /\ Iterates = 1 <=> PassesAt(1)
        /\ Iterates = 2 => Same(ResidualAt(2), Zero)

(* C26: a discounted, subsidised request under no cap: the seed misses the *)
(* target by more than the tolerance and the one adjustment meets it       *)
C26_SecondIterateExact ==
    /\ SolvedValid
    /\ NeverCapped
    /\ Gt(args.sellerDiscount, Zero)
    /\ Gt(args.platformSubsidy, Zero)
    /\ ~PassesAt(1)
    /\ Iterates = 2
    /\ ret.loop.broke
    /\ Same(ResidualAt(2), Zero)

----------------------------------------------------------------------------
(* Properties of the result object.                                        *)

(* C24: in every result with a finite retailPrice, totalFees is commission *)
(* + commerceGrowth + transaction + infrastructure + orderProcessing,      *)
(* importDuty is purchaseCost * dutyRate, importVAT is purchaseCost * (1 + *)
(* dutyRate) * vatRate (nothing is charged on logisticsCost), totalTax is  *)
(* importDuty + importVAT + salesVAT (to 6 decimals: the code adds         *)
(* salesVAT to purchaseCost * combinedTaxRate), actualRevenue is           *)
(* retailPrice - totalFees - totalTax and actualProfit is actualRevenue -  *)
(* costs.totalCost.                                                        *)
C24_BreakdownAddsUp ==
    (PricingReturned /\ IsFinite(ret.value.retailPrice)) =>
        LET v == ret.value
            fees == v.platformFees
        IN  /\ fees.totalFees =
                  Add(Add(Add(Add(fees.commission, fees.commerceGrowth),
                              fees.transaction),
                          fees.infrastructure),
                      fees.orderProcessing)
            /\ v.taxes.importDuty = Mul(v.costs.purchaseCost, args.dutyRate)
            /\ v.taxes.importVAT =
                  Mul(Mul(v.costs.purchaseCost, Add(One, args.dutyRate)),
                      ret.schedule.vatRate)
            /\ Same(v.taxes.totalTax,
                    Add(Add(v.taxes.importDuty, v.taxes.importVAT), v.taxes.salesVAT))
            /\ v.revenue.actualRevenue =
                  Sub(Sub(v.retailPrice, fees.totalFees), v.taxes.totalTax)
            /\ v.revenue.actualProfit =
                  Sub(v.revenue.actualRevenue, v.costs.totalCost)
            /\ v.costs.totalCost = Add(v.costs.purchaseCost, v.costs.logisticsCost)

(* C24: the breakdown of a result in which every fee and tax but the       *)
(* order-processing fee is charged, and logistics are part of the cost     *)
C24_EveryItemCharged ==
    /\ PricingReturned
    /\ IsFinite(ret.value.retailPrice)
    /\ Gt(ret.value.platformFees.commission, Zero)
    /\ Gt(ret.value.platformFees.commerceGrowth, Zero)
    /\ Gt(ret.value.platformFees.transaction, Zero)
    /\ Gt(ret.value.platformFees.infrastructure, Zero)
    /\ Gt(ret.value.taxes.importDuty, Zero)
    /\ Gt(ret.value.taxes.importVAT, Zero)
    /\ Gt(ret.value.taxes.salesVAT, Zero)
    /\ Gt(ret.value.costs.logisticsCost, Zero)
    /\ Same(ret.value.taxes.totalTax,
            Add(Add(ret.value.taxes.importDuty, ret.value.taxes.importVAT),
                ret.value.taxes.salesVAT))

----------------------------------------------------------------------------
(* Properties of the seller flags and of the solver's earlier versions.    *)

\* a call of the latest calculatePricing for a shipped country has returned
ShippedReturned == PricingReturned /\ args.countryCode \in SHIPPED_CODES

(* C25: for each of the five shipped countries and both values of          *)
(* isNewSeller the latest calculatePricing returns platformFees.           *)
(* orderProcessing = 0 (it asks for the fee at monthlyOrderCount 0), and a *)
(* new seller's result is the whole result of the same request by an       *)
(* existing seller: the Philippine fee of 3 is never charged.  The solver  *)
(* of Home.tsx charges the configured fee: 3 in the Philippines, at a      *)
(* higher retailPrice, and 0 in the countries that configure none.         *)
C25_OrderFeeNeverCharged ==
    ShippedReturned =>
        /\ ret.value.platformFees.orderProcessing = Zero
        /\ args.isNewSeller =>
              ret.value = calculatePricing([args EXCEPT !.isNewSeller = FALSE])
        /\ HomeTsxResolveSchedule(args).orderProcessingFee =
              OrElse(countries[args.countryCode].orderProcessingFee, Zero)
        /\ args.countryCode = "PH" =>
              LET earlier == calculatePricingHomeTsx(args)
              IN  /\ earlier.platformFees.orderProcessing = Dec(3, 1)
                  /\ Gt(earlier.retailPrice, ret.value.retailPrice)
        /\ args.countryCode # "PH" =>
              HomeTsxResolveSchedule(args).orderProcessingFee = Zero

(* C25: an existing seller's request in the Philippines is charged no      *)
(* order-processing fee by the latest solver and 3 by the one of Home.tsx  *)
C25_PhilippineFeeDropped ==
    /\ ShippedReturned
    /\ args.countryCode = "PH"
    /\ ~args.isNewSeller
    /\ countries["PH"].orderProcessingFee = Dec(3, 1)
    /\ ret.value.platformFees.orderProcessing = Zero
    /\ calculatePricingHomeTsx(args).platformFees.orderProcessing = Dec(3, 1)

\* a request that uses a parameter the earlier solvers do not have
UsesLaterParameter(a) == ~a.isBXP \/ a.isNewSeller \/ a.returnRate # Dec(5, 100)

(* C27: called with 'TH', the latest calculatePricing (for any isBXP,      *)
(* isNewSeller and returnRate) and the one of Home.tsx resolve the rates   *)
(* and fees that the Thailand-only calculatePricing has as literals, its   *)
(* literal 1.07 is their 1 + vatRate and the order-processing fee they add *)
(* is 0; so the three solve the same equation, and on the requests that    *)
(* set isBXP, isNewSeller or returnRate apart from the defaults the        *)
(* results recomputed by the two earlier solvers have the retailPrice,     *)
(* taxes, platform fees and revenue of the latest.                         *)
C27_VariantsAgreeOnThailand ==
    (PricingReturned /\ args.countryCode = "TH") =>
        /\ Add(One, ret.schedule.vatRate) = ThailandVatDivisor
        /\ ThailandSchedule(args) = ret.schedule
        /\ HomeTsxResolveSchedule(args) = ret.schedule
        /\ ret.value.platformFees.orderProcessing = Zero
        /\ UsesLaterParameter(args) =>
              LET first == calculatePricingThailand(args)
                  earlier == calculatePricingHomeTsx(args)
                  latest == ret.value
              IN  /\ first.retailPrice = latest.retailPrice
                  /\ first.taxes = latest.taxes
                  /\ first.revenue = latest.revenue
                  /\ first.platformFees = ThailandResult(latest).platformFees
                  /\ earlier = HomeTsxResult(latest)

(* C27: a Thai request for electronics by a new seller outside the BXP     *)
(* programme, with returns, solved alike by the three versions             *)
C27_ThaiElectronicsAlike ==
    /\ PricingReturned
    /\ args.countryCode = "TH"
    /\ args.category = "electronics"
    /\ ~args.isBXP
    /\ args.isNewSeller
    /\ Gt(args.returnRate, Zero)
    /\ calculatePricingThailand(args).retailPrice = ret.value.retailPrice
    /\ calculatePricingHomeTsx(args).retailPrice = ret.value.retailPrice
    /\ calculatePricingThailand(args).platformFees.commission =
          ret.value.platformFees.commission

\* the fields of the result v beside returnLoss
BesideReturnLoss(v) == [f \in DOMAIN v \ {"returnLoss"} |-> v[f]]

(* C28: a request with returnRate 0 (solved at a finite retailPrice) and   *)
(* the same request with another returnRate are given the same             *)
(* retailPrice, preTaxPrice, discountedPrice, costs, taxes, platformFees,  *)
(* subsidyDiscount and revenue; their returnLoss differs; and with         *)
(* returnRate 0 returnCost is 0 and adjustedProfit is actualProfit.        *)
C28_ReturnRateAfterTheSolve ==
    (PricingReturned /\ IsFinite(ret.value.retailPrice) /\ args.returnRate = Zero) =>
        /\ ret.value.returnLoss.returnCost = Zero
        /\ ret.value.returnLoss.adjustedProfit = ret.value.revenue.actualProfit
        /\ \A q \in ReturnRates \ {Zero} :
              LET other == calculatePricing([args EXCEPT !.returnRate = q])
              IN  /\ BesideReturnLoss(other) = BesideReturnLoss(ret.value)
                  /\ other.returnLoss # ret.value.returnLoss
                  /\ other.returnLoss.returnRate = q

(* C28: a Thai request with no returns: at returnRate 0.05 the price and   *)
(* the profit are the same and the adjusted profit is lower                *)
C28_ReturnsLeavePrice ==
    /\ PricingReturned
    /\ args.countryCode = "TH"
    /\ args.returnRate = Zero
    /\ ret.value.returnLoss.adjustedProfit = ret.value.revenue.actualProfit
    /\ LET other == calculatePricing([args EXCEPT !.returnRate = Dec(5, 100)])
       IN  /\ other.retailPrice = ret.value.retailPrice
           /\ other.revenue = ret.value.revenue
           /\ Lt(other.returnLoss.adjustedProfit, ret.value.returnLoss.adjustedProfit)

(* C29: for every country code other than 'MY' (one that is not in the     *)
(* table included) and every category, getCommissionRate returns the same  *)
(* rate for isBXP true and false, and so does calculatePricing the same    *)
(* result; for 'MY' the rate for isBXP = false is strictly higher than the *)
(* one for isBXP = true.                                                   *)
C29_TierFlagMalaysiaOnly ==
    /\ (fn = "getCommissionRate" /\ args.countryCode # "MY") =>
          ret.value = getCommissionRate(args.countryCode, args.category, ~args.isBXP)
    /\ (fn = "getCommissionRate" /\ args.countryCode = "MY" /\ ~args.isBXP) =>
          Gt(ret.value, getCommissionRate("MY", args.category, TRUE))
    /\ (PricingReturned /\ args.countryCode # "MY" /\ ~args.isBXP) =>
          ret.value = calculatePricing([args EXCEPT !.isBXP = TRUE])

(* C29: a Malaysian seller outside the BXP programme is quoted the         *)
(* midpoint of the tier's range, above the rate of a BXP seller            *)
C29_MalaysiaOutsideBXP ==
    /\ fn = "getCommissionRate"
    /\ args.countryCode = "MY"
    /\ ~args.isBXP
    /\ ret.value = Midpoint(CommissionOf("MY").bxp.range)
    /\ Gt(ret.value, getCommissionRate("MY", args.category, TRUE))

----------------------------------------------------------------------------
(* Properties of the Home component.                                       *)

(* C30: after any sequence of input changes, once the effect has run (no   *)
(* render is waiting for its effect), the stored result is calculatePricing *)
(* applied to the current values of all eleven inputs, the costs converted *)
(* at the current country's exchange rate: the dependency list covers      *)
(* every argument, so no change leaves a stale result.                     *)
C30_ResultFollowsInputs ==
    EffectSettled =>
        /\ home.rendered = Render(home.inputs)
        /\ home.result = calculatePricing(EffectArguments(home.inputs, Render(home.inputs)))

(* C30: the page after the country was changed to the Philippines and the  *)
(* return rate to 0: the result stored is the one of the current inputs    *)
C30_RecomputedAfterChanges ==
    /\ EffectSettled
    /\ home.inputs.countryCode = "PH"
    /\ home.inputs.returnRate = Zero
    /\ home.result # null
    /\ home.result.returnLoss.returnRate = Zero
    /\ home.result.costs.purchaseCost = Div(Dec(20, 1), Dec(13, 100))
    /\ home.result = calculatePricing(EffectArguments(home.inputs, Render(home.inputs)))

====
